---- MODULE Spec2Model ----
(***************************************************************************)
(* Model of the aggregation engine of week5/src/core/statistics.js:        *)
(* precisionHelper, statsCalculators, createStatsSummary,                  *)
(* validateAndCleanData, performantGroupBy and calculateStatistics.        *)
(*                                                                         *)
(* Each exported function is a synchronous call: its specification draws   *)
(* the argument in the initial state and one action runs the whole call.   *)
(*   Spec          calculateStatistics(rawData)                            *)
(*   SpecValidate  validateAndCleanData(rawData)                           *)
(*   SpecStats     createStatsSummary(values)                              *)
(*   SpecRound     precisionHelper.round(num, precision)                   *)
(*   SpecDivide    precisionHelper.divide(a, b)                            *)
(*   SpecHttp      the handler of POST /api/calculate                      *)
(* calculateStatisticsStream is asynchronous: it is suspended at the wait  *)
(* for the next chunk, and each run is a process of two steps, the         *)
(* producer delivering a chunk (or the end of the stream) and the run      *)
(* consuming it.                                                           *)
(*   SpecStream    one run, and calculateStatistics on its records         *)
(*   SpecStreams   two runs at once, and a call of calculateStatistics     *)
(*   SpecSettle    one run under a producer that answers every request     *)
(*                 and a run that resumes when answered                    *)
(* The snippets of the notes are modelled alongside:                       *)
(*   SpecAjax      ajax(options) of unnamed/part_000: one request from     *)
(*                 send to the events of the XMLHttpRequest                *)
(*   SpecThrottle  throttle(fn, delay, options) of week1: the returned     *)
(*                 function called over time                               *)
(*   SpecGen       generatorToAsync(gen) of week2: one call, resumed as    *)
(*                 the yielded promises settle                             *)
(*                                                                         *)
(* JavaScript values are records [t, k, n, d, s]:                          *)
(*   t  the typeof tag ("undefined", "null", "boolean", "number",          *)
(*      "string"),                                                         *)
(*   k  the class of a number: "fin" (an ordinary finite double), "big"    *)
(*      (a finite double of the order of 10^305), "nan", "inf",            *)
(*   n, d  the numerator and denominator: a "fin" number is                *)
(*      n / (d * Unit), a "big" number is (n / d) * 10^305, an "inf"       *)
(*      number is n * Infinity (n = 1 or -1), a boolean is n = 1 or 0,     *)
(*   s  the characters of a string, one per element.                       *)
(* Finite doubles are decimals, exact to one digit more than the default   *)
(* rounding precision; binary representation error is not modelled.  The   *)
(* "big" numbers model the upper end of the double range, where scaling by *)
(* a power of ten overflows to Infinity.                                   *)
(***************************************************************************)
EXTENDS Integers, Sequences, FiniteSets

VARIABLES
    rawData,     \* the argument of validateAndCleanData / calculateStatistics
    validated,   \* the array validateAndCleanData returned
    results,     \* the object calculateStatistics returned
    thrown,      \* the error the call ended with, NoError when it returned
    pc,          \* "idle" | "call" | "done"
    values,      \* the argument of createStatsSummary
    summary,     \* the Summary it returned
    statsPc,     \* "idle" | "call" | "done"
    num,         \* the first argument of precisionHelper.round
    precision,   \* its second argument
    rounded,     \* the value it returned
    roundPc,     \* "idle" | "call" | "done"
    dividend,    \* the first argument of precisionHelper.divide
    divisor,     \* its second argument
    quotient,    \* the value it returned
    dividePc,    \* "idle" | "call" | "done"
    chunks,      \* per run, the arrays its producer delivers, in order
    cursor,      \* per run, the number of chunks delivered so far
    delivered,   \* per run, what the producer handed over last
    stats,       \* per run, the local object stats with processedCount
    streamResults, \* per run, the object the run resolved with
    streamThrown,  \* per run, the error the run rejected with
    streamPc,    \* per run, "idle" | "wait" | "ready" | "resolved" | "rejected"
    req,         \* the request of POST /api/calculate
    res,         \* the responses sent for it, in order
    httpPc,      \* "idle" | "call" | "done"
    xhr,         \* ajax: the XMLHttpRequest object and the call's options
    promise,     \* ajax: the promise returned, with the settling calls made
    ajaxPc,      \* "idle" | "call" | "sent" | "done"
    throttled,   \* throttle: the closure's lastTime, leading, trailing, timer
    now,         \* throttle: Date.now()
    executions,  \* throttle: the times at which fn was executed, in order
    calls,       \* throttle: the number of calls of the returned function
    throttlePc,  \* "idle" | "run"
    gen,         \* generatorToAsync: the generator's body
    iter,        \* the iterator: its position and the values sent into it
    yielded,     \* the promise yielded last and not yet handled
    asyncPromise, \* the promise the returned function returned
    genPc        \* "idle" | "call" | "await" | "done"

vars == <<rawData, validated, results, thrown, pc,
          values, summary, statsPc, num, precision, rounded, roundPc,
          dividend, divisor, quotient, dividePc,
          chunks, cursor, delivered, stats, streamResults, streamThrown, streamPc,
          req, res, httpPc,
          xhr, promise, ajaxPc,
          throttled, now, executions, calls, throttlePc,
          gen, iter, yielded, asyncPromise, genPc>>

engineVars == <<rawData, validated, results, thrown, pc>>

statsVars == <<values, summary, statsPc>>
roundVars == <<num, precision, rounded, roundPc>>
divideVars == <<dividend, divisor, quotient, dividePc>>
streamVars == <<chunks, cursor, delivered, stats, streamResults, streamThrown, streamPc>>
httpVars == <<req, res, httpPc>>
ajaxVars == <<xhr, promise, ajaxPc>>
throttleVars == <<throttled, now, executions, calls, throttlePc>>
genVars == <<gen, iter, yielded, asyncPromise, genPc>>
webVars == <<ajaxVars, throttleVars, genVars>>
coreVars == <<engineVars, statsVars, roundVars, divideVars, streamVars, httpVars>>

----------------------------------------------------------------------------
(* Bounds of the model. *)

\* The longest sequence handed to the summarizer.
MaxValues == 4

\* The longest array handed to calculateStatistics.
MaxRecords == 3

\* The longest array handed to validateAndCleanData.
MaxItems == 3

\* precisionHelper.round is tried on every n / Unit with |n| <= RoundSpan.
RoundSpan == 30

\* throttle is tried with every delay of 1..MaxDelay milliseconds.
MaxDelay == 2

\* The milliseconds that pass after the first call of a throttled function.
MaxTicks == 4

\* The most calls of a throttled function.
MaxCalls == 3

\* The most yield statements of a generator function.
MaxYields == 2

\* The most records a stream delivers in SpecStream.
MaxStream == 4

\* The most records a stream delivers when two runs are in progress.
MaxPair == 2

\* The longest array in the body of a request.
MaxBody == 2

\* The weight buffer is compacted when it is longer than this.  The source
\* has 100000 here; the model scales the threshold down so that buffers on
\* both sides of it can be enumerated.
CompactionLimit == 2

----------------------------------------------------------------------------
(* JavaScript values. *)

\* precisionHelper.round's default precision.
DefaultPrecision == 6

\* The decimal digits the model keeps of a finite double.
Digits == DefaultPrecision + 1

\* The number 1 in the model's units.
Unit == 10 ^ Digits

Val(t, k, n, d, s) == [t |-> t, k |-> k, n |-> n, d |-> d, s |-> s]

Undefined == Val("undefined", "", 0, 1, <<>>)
Null == Val("null", "", 0, 1, <<>>)
Bool(b) == Val("boolean", "", IF b THEN 1 ELSE 0, 1, <<>>)
Str(s) == Val("string", "", 0, 1, s)

\* The finite double n / (d * Unit), d > 0.
Frac(n, d) == Val("number", "fin", n, d, <<>>)
\* The finite double n / Unit.
Num(n) == Frac(n, 1)
\* The integer i as a double.
Whole(i) == Num(i * Unit)
\* The finite double (n / d) * 10^305, n # 0, d > 0.
BigFrac(n, d) == Val("number", "big", n, d, <<>>)
Big(n) == BigFrac(n, 1)
NaN == Val("number", "nan", 0, 1, <<>>)
\* sign * Infinity.
Inf(sign) == Val("number", "inf", sign, 1, <<>>)
Infinity == Inf(1)
NegInfinity == Inf(-1)

Abs(i) == IF i < 0 THEN -i ELSE i
Sgn(i) == IF i < 0 THEN -1 ELSE IF i > 0 THEN 1 ELSE 0

RECURSIVE GCD(_, _)
GCD(a, b) == IF b = 0 THEN a ELSE GCD(b, a % b)

\* Number.isFinite(v): a number, neither NaN nor an infinity.
NumberIsFinite(v) == v.t = "number" /\ v.k \in {"fin", "big"}

\* Number.MAX_VALUE is 1.797...e308: (n / d) * 10^305 * 10^p exceeds it
\* exactly when |n| * 10^p > 1797 * d.
Overflows(n, d, p) == Abs(n) * (10 ^ p) > 1797 * d

\* Math.round of the real n / q, q > 0: the nearest integer, a tie going
\* to the larger one (floor(x + 1/2)).
MathRound(n, q) == (n \div q) + (IF 2 * (n % q) >= q THEN 1 ELSE 0)

\* a + b on two finite doubles.
Plus(a, b) ==
    IF a.k = "fin" /\ b.k = "fin" THEN Frac(a.n * b.d + b.n * a.d, a.d * b.d)
    ELSE IF a.k = "fin" THEN b          \* the large operand absorbs the small
    ELSE IF b.k = "fin" THEN a
    ELSE LET n == a.n * b.d + b.n * a.d
             d == a.d * b.d
         IN  IF n = 0 THEN Num(0)
             ELSE IF Overflows(n, d, 0) THEN Inf(Sgn(n))
             ELSE BigFrac(n, d)

\* a / b on two finite doubles, b # 0: an infinity when the quotient
\* overflows.
Over(a, b) ==
    IF a.k = "fin" /\ b.k = "fin" THEN
        LET g == GCD(Unit, Abs(b.n))
        IN  Frac(Sgn(b.n) * a.n * b.d * (Unit \div g), a.d * (Abs(b.n) \div g))
    ELSE IF a.k = "big" /\ b.k = "fin" THEN
        LET g == GCD(Unit, Abs(b.n))
            n == Sgn(b.n) * a.n * b.d * (Unit \div g)
            d == a.d * (Abs(b.n) \div g)
        IN  IF Overflows(n, d, 0) THEN Inf(Sgn(n)) ELSE BigFrac(n, d)
    ELSE IF a.k = "fin" THEN Num(0)     \* below every rounding step
    ELSE Frac(Sgn(b.n) * a.n * b.d * Unit, a.d * Abs(b.n))

\* The sign of a - b on two finite doubles: -1, 0 or 1.
Compare(a, b) ==
    IF a.k = "fin" /\ b.k = "fin" THEN Sgn(a.n * b.d - b.n * a.d)
    ELSE IF a.k = "fin" THEN -Sgn(b.n)
    ELSE IF b.k = "fin" THEN Sgn(a.n)
    ELSE Sgn(a.n * b.d - b.n * a.d)

\* arr[i] of a JavaScript array (indices from 0; undefined outside it).
At(arr, i) == IF i + 1 \in 1..Len(arr) THEN arr[i + 1] ELSE Undefined

----------------------------------------------------------------------------
(* precisionHelper *)

\* round with Math.floor in the place of Math.round.
round_Floor(x, p) ==
    IF x.t # "number" \/ ~NumberIsFinite(x) THEN Num(0)
    ELSE IF x.k = "big" /\ Overflows(x.n, x.d, p) THEN Inf(Sgn(x.n))
    ELSE IF x.k = "big" THEN x
    ELSE LET step == 10 ^ (Digits - p)
         IN  Num((x.n \div (x.d * step)) * step)

round(x, p) ==
    IF x.t # "number" \/ ~NumberIsFinite(x) THEN Num(0)
    \* num * Math.pow(10, precision) overflows: Math.round and the division
    \* leave the infinity as it is.
    ELSE IF x.k = "big" /\ Overflows(x.n, x.d, p) THEN Inf(Sgn(x.n))
    \* An integer-valued double: Math.round leaves the scaled value alone.
    ELSE IF x.k = "big" THEN x
    ELSE LET step == 10 ^ (Digits - p)
         IN  Num(MathRound(x.n, x.d * step) * step)

add(a, b) ==
    LET a1 == IF ~NumberIsFinite(a) THEN Num(0) ELSE a
        b1 == IF ~NumberIsFinite(b) THEN Num(0) ELSE b
    IN  round(Plus(a1, b1), DefaultPrecision)

divide(a, b) ==
    IF ~NumberIsFinite(a) \/ ~NumberIsFinite(b) \/ (b.k = "fin" /\ b.n = 0)
    THEN Num(0)
    ELSE round(Over(a, b), DefaultPrecision)

----------------------------------------------------------------------------
(* statsCalculators *)

\* values.filter(Number.isFinite)
FilterFinite(vs) == SelectSeq(vs, NumberIsFinite)

\* Math.max(...args) and Math.min(...args) on finite arguments: with no
\* argument, -Infinity and Infinity.
RECURSIVE MathMax(_)
MathMax(args) ==
    IF Len(args) = 0 THEN NegInfinity
    ELSE LET rest == MathMax(Tail(args))
         IN  IF rest.k = "inf" \/ Compare(Head(args), rest) >= 0
             THEN Head(args) ELSE rest

RECURSIVE MathMin(_)
MathMin(args) ==
    IF Len(args) = 0 THEN Infinity
    ELSE LET rest == MathMin(Tail(args))
         IN  IF rest.k = "inf" \/ Compare(Head(args), rest) <= 0
             THEN Head(args) ELSE rest

\* Array.prototype.sort((a, b) => a - b) on finite doubles: a stable
\* ascending sort.
RECURSIVE Insert(_, _)
Insert(sorted, x) ==
    IF Len(sorted) = 0 THEN <<x>>
    ELSE IF Compare(x, sorted[Len(sorted)]) >= 0 THEN Append(sorted, x)
    ELSE Append(Insert(SubSeq(sorted, 1, Len(sorted) - 1), x), sorted[Len(sorted)])

RECURSIVE SortAscending(_)
SortAscending(vs) ==
    IF Len(vs) = 0 THEN <<>>
    ELSE Insert(SortAscending(SubSeq(vs, 1, Len(vs) - 1)), vs[Len(vs)])

RECURSIVE sum(_)
sum(vs) ==
    IF Len(vs) = 0 THEN Num(0)
    ELSE add(sum(SubSeq(vs, 1, Len(vs) - 1)), vs[Len(vs)])

mean(vs) ==
    IF Len(vs) = 0 THEN Num(0) ELSE divide(sum(vs), Whole(Len(vs)))

\* max without the guard for the empty sequence.
max_NoEmptyGuard(vs) == MathMax(FilterFinite(vs))

max(vs) == IF Len(vs) = 0 THEN Num(0) ELSE MathMax(FilterFinite(vs))

min(vs) == IF Len(vs) = 0 THEN Num(0) ELSE MathMin(FilterFinite(vs))

\* median without the sort.
median_Unsorted(vs) ==
    IF Len(vs) = 0 THEN Num(0)
    ELSE LET sorted == FilterFinite(vs)
             mid == Len(sorted) \div 2
         IN  IF Len(sorted) % 2 = 0
             THEN divide(add(At(sorted, mid - 1), At(sorted, mid)), Whole(2))
             ELSE At(sorted, mid)

median(vs) ==
    IF Len(vs) = 0 THEN Num(0)
    ELSE LET sorted == SortAscending(FilterFinite(vs))
             mid == Len(sorted) \div 2
         IN  IF Len(sorted) % 2 = 0
             THEN divide(add(At(sorted, mid - 1), At(sorted, mid)), Whole(2))
             ELSE At(sorted, mid)

createStatsSummary(vs) ==
    [sum |-> sum(vs), mean |-> mean(vs), max |-> max(vs), min |-> min(vs),
     median |-> median(vs), count |-> Len(vs)]

----------------------------------------------------------------------------
(* Conversions. *)

DigitChars == <<"0", "1", "2", "3", "4", "5", "6", "7", "8", "9">>

IsDigit(c) == \E i \in 1..10 : DigitChars[i] = c
DigitValue(c) == (CHOOSE i \in 1..10 : DigitChars[i] = c) - 1

\* The decimal digits of a natural number.
RECURSIVE NatToChars(_)
NatToChars(i) ==
    IF i < 10 THEN <<DigitChars[i + 1]>>
    ELSE Append(NatToChars(i \div 10), DigitChars[(i % 10) + 1])

\* The digits of the fraction f / 10^width, trailing zeros dropped.
RECURSIVE FractionChars(_, _)
FractionChars(f, width) ==
    IF f = 0 THEN <<>>
    ELSE LET place == 10 ^ (width - 1)
         IN  <<DigitChars[(f \div place) + 1]>> \o FractionChars(f % place, width - 1)

\* String(v) of a number.
NumberToString(v) ==
    IF v.k = "nan" THEN <<"N", "a", "N">>
    ELSE LET sign == IF v.n < 0 THEN <<"-">> ELSE <<>>
         IN  IF v.k = "inf" THEN sign \o <<"I", "n", "f", "i", "n", "i", "t", "y">>
             ELSE IF v.k = "big" THEN sign \o NatToChars(Abs(v.n)) \o <<"e", "+", "3", "0", "5">>
             ELSE LET whole == NatToChars(Abs(v.n) \div Unit)
                      frac == FractionChars(Abs(v.n) % Unit, Digits)
                  IN  sign \o whole \o (IF frac = <<>> THEN <<>> ELSE <<".">> \o frac)

\* String(v), as a template literal and a property key apply it.
ToString(v) ==
    IF v.t = "string" THEN v.s
    ELSE IF v.t = "number" THEN NumberToString(v)
    ELSE IF v.t = "boolean" THEN (IF v.n = 1 THEN <<"t", "r", "u", "e">>
                                  ELSE <<"f", "a", "l", "s", "e">>)
    ELSE IF v.t = "null" THEN <<"n", "u", "l", "l">>
    ELSE <<"u", "n", "d", "e", "f", "i", "n", "e", "d">>

\* The value of a string of decimal digits.
RECURSIVE DigitsValue(_)
DigitsValue(s) ==
    IF Len(s) = 0 THEN 0
    ELSE 10 * DigitsValue(SubSeq(s, 1, Len(s) - 1)) + DigitValue(s[Len(s)])

\* Number(v): a number is itself, undefined is NaN, null is 0, a boolean is
\* 1 or 0, the empty string is 0, a string of decimal digits is its value
\* and any other string of the model's alphabet is NaN.
ToNumber(v) ==
    IF v.t = "number" THEN v
    ELSE IF v.t = "null" THEN Num(0)
    ELSE IF v.t = "boolean" THEN Whole(v.n)
    ELSE IF v.t = "string" THEN
        (IF \A i \in 1..Len(v.s) : IsDigit(v.s[i]) THEN Whole(DigitsValue(v.s)) ELSE NaN)
    ELSE NaN

\* s.split(sep) for a one-character separator: an array of strings.
RECURSIVE Split(_, _)
Split(s, sep) ==
    IF \A i \in 1..Len(s) : s[i] # sep THEN <<Str(s)>>
    ELSE LET i == CHOOSE j \in 1..Len(s) :
                      s[j] = sep /\ \A h \in 1..(j - 1) : s[h] # sep
         IN  <<Str(SubSeq(s, 1, i - 1))>> \o Split(SubSeq(s, i + 1, Len(s)), sep)

----------------------------------------------------------------------------
(* Records and validateAndCleanData *)

\* An element of the input array is [t, f]: t is "object", "null",
\* "undefined" or a primitive's typeof tag; f gives, for an object, each
\* own property's value, Absent where the object has no such property.
Absent == Val("absent", "", 0, 1, <<>>)

requiredFields == <<"id", "region", "resource", "year", "value", "weight">>
numericFields == <<"year", "value", "weight">>

FieldNames == {requiredFields[i] : i \in 1..Len(requiredFields)}

NoFields == [field \in FieldNames |-> Absent]

Record(id, region, resource, year, value, weight) ==
    [t |-> "object",
     f |-> [id |-> id, region |-> region, resource |-> resource,
            year |-> year, value |-> value, weight |-> weight]]

Primitive(t) == [t |-> t, f |-> NoFields]

\* item.hasOwnProperty(field) on an element that is not null or undefined.
HasOwnProperty(item, field) == item.t = "object" /\ item.f[field] # Absent

\* item[field]: undefined for a property the element does not have.
Get(item, field) == IF item.f[field] = Absent THEN Undefined ELSE item.f[field]

\* hasAllFields without the tests for null and undefined.
hasAllFields_OwnPropertyOnly(item) ==
    \A i \in 1..Len(requiredFields) : HasOwnProperty(item, requiredFields[i])

hasAllFields(item) ==
    \A i \in 1..Len(requiredFields) :
        /\ HasOwnProperty(item, requiredFields[i])
        /\ Get(item, requiredFields[i]) # Null
        /\ Get(item, requiredFields[i]) # Undefined

hasValidNumbers(item) ==
    \A i \in 1..Len(numericFields) :
        LET val == ToNumber(Get(item, numericFields[i]))
        IN  NumberIsFinite(val) /\ val.k # "nan"

\* The filter callback of validateAndCleanData.
KeepItem(item) == hasAllFields(item) /\ hasValidNumbers(item)

\* What a call ends with: thrown names the error, NoError when it returned.
NoError == "none"
\* Error('...'): the input is not an array.
ArrayFormatError == "Error: data must be an array"
\* Error('...'): no valid data record.
NoValidRecordsError == "Error: no valid data records"
\* item.hasOwnProperty on null or undefined.
NullTypeError == "TypeError: cannot read properties of null or undefined"

\* Array.isArray(data).
IsArray(data) == data.t = "array"

\* filter that removes the rejected elements from the receiver itself.
filter_InPlace(receiver) ==
    [receiver |-> SelectSeq(receiver, KeepItem), result |-> SelectSeq(receiver, KeepItem)]

\* data.filter(item => ...): a new array of the elements the callback
\* keeps; the receiver is left as it is.
filter(receiver) ==
    [receiver |-> receiver, result |-> SelectSeq(receiver, KeepItem)]

\* A call yields [thrown, value, data]: the error it ended with, the value
\* it returned, and the caller's argument as the call leaves it.
validateAndCleanData(data) ==
    IF ~IsArray(data) THEN [thrown |-> ArrayFormatError, value |-> <<>>, data |-> data]
    ELSE IF \E i \in 1..Len(data.items) : data.items[i].t \in {"null", "undefined"}
    THEN [thrown |-> NullTypeError, value |-> <<>>, data |-> data]
    ELSE LET filtered == filter(data.items)
         IN  [thrown |-> NoError, value |-> filtered.result,
              data |-> [data EXCEPT !.items = filtered.receiver]]

----------------------------------------------------------------------------
(* performantGroupBy and calculateStatistics *)

\* A Map is the sequence of its entries [key, items] in insertion order.
MapHas(groups, key) == \E i \in 1..Len(groups) : groups[i].key = key

\* MapPush that creates the group of a new key and leaves it empty.
MapPush_SetOnly(groups, key, item) ==
    IF MapHas(groups, key)
    THEN [i \in 1..Len(groups) |->
            IF groups[i].key = key
            THEN [groups[i] EXCEPT !.items = Append(@, item)]
            ELSE groups[i]]
    ELSE Append(groups, [key |-> key, items |-> <<>>])

\* groups.get(key).push(item), after groups.set(key, []) for a new key.
MapPush(groups, key, item) ==
    IF MapHas(groups, key)
    THEN [i \in 1..Len(groups) |->
            IF groups[i].key = key
            THEN [groups[i] EXCEPT !.items = Append(@, item)]
            ELSE groups[i]]
    ELSE Append(groups, [key |-> key, items |-> <<item>>])

\* The key extractors calculateStatistics passes to performantGroupBy,
\* each named by the grouping it serves.
RegionKey(item) == Get(item, "region")
RegionYearKey(item) ==
    Str(ToString(Get(item, "region")) \o <<"|">> \o ToString(Get(item, "year")))
ResourceKey(item) == Get(item, "resource")

keyExtractor(by, item) ==
    IF by = "region" THEN RegionKey(item)
    ELSE IF by = "regionYear" THEN RegionYearKey(item)
    ELSE ResourceKey(item)

\* The Map after the loop's first n iterations.
RECURSIVE GroupFirst(_, _, _)
GroupFirst(data, by, n) ==
    IF n = 0 THEN <<>>
    ELSE MapPush(GroupFirst(data, by, n - 1), keyExtractor(by, data[n]), data[n])

performantGroupBy(data, by) == GroupFirst(data, by, Len(data))

\* A plain object is a function from its property keys (strings).
EmptyObject == [key \in {} |-> 0]
HasKey(obj, key) == key \in DOMAIN obj
\* obj[key] = v
Put(obj, key, v) == [k \in DOMAIN obj \cup {key} |-> IF k = key THEN v ELSE obj[k]]

\* items.map(item => Number(item[field]))
NumbersOf(items, field) == [i \in 1..Len(items) |-> ToNumber(Get(items[i], field))]

\* for (const [label, items] of groups) obj[label] = createStatsSummary(...)
RECURSIVE SummariesByLabel(_, _)
SummariesByLabel(groups, n) ==
    IF n = 0 THEN EmptyObject
    ELSE Put(SummariesByLabel(groups, n - 1), ToString(groups[n].key),
             createStatsSummary(NumbersOf(groups[n].items, "value")))

\* The loop over regionYearGroups: the key is split at '|' and its first
\* two parts name the region and the year of the nested entry.
RECURSIVE SummariesByRegionAndYear(_, _)
SummariesByRegionAndYear(groups, n) ==
    IF n = 0 THEN EmptyObject
    ELSE LET before == SummariesByRegionAndYear(groups, n - 1)
             parts == Split(groups[n].key.s, "|")
             region == ToString(At(parts, 0))
             year == ToString(At(parts, 1))
             nested == IF HasKey(before, region) THEN before[region] ELSE EmptyObject
         IN  Put(before, region,
                 Put(nested, year,
                     createStatsSummary(NumbersOf(groups[n].items, "value"))))

NoResults == [byRegion |-> EmptyObject, byRegionAndYear |-> EmptyObject,
              byResource |-> EmptyObject,
              globalWeight |-> [max |-> Undefined, min |-> Undefined, median |-> Undefined]]

calculateStatistics(rawInput) ==
    LET cleaned == validateAndCleanData(rawInput)
        cleanData == cleaned.value
        allWeights == NumbersOf(cleanData, "weight")
    IN  IF cleaned.thrown # NoError
        THEN [thrown |-> cleaned.thrown, value |-> NoResults, data |-> cleaned.data]
        ELSE IF Len(cleanData) = 0
        THEN [thrown |-> NoValidRecordsError, value |-> NoResults, data |-> cleaned.data]
        ELSE [thrown |-> NoError, data |-> cleaned.data,
              value |->
                [byRegion |->
                    LET groups == performantGroupBy(cleanData, "region")
                    IN  SummariesByLabel(groups, Len(groups)),
                 byRegionAndYear |->
                    LET groups == performantGroupBy(cleanData, "regionYear")
                    IN  SummariesByRegionAndYear(groups, Len(groups)),
                 byResource |->
                    LET groups == performantGroupBy(cleanData, "resource")
                    IN  SummariesByLabel(groups, Len(groups)),
                 globalWeight |->
                    [max |-> max(allWeights), min |-> min(allWeights),
                     median |-> median(allWeights)]]]

----------------------------------------------------------------------------
(* calculateStatisticsStream *)

\* The runs of calculateStatisticsStream that may be in progress at once.
Runs == {1, 2}

\* const stats = {...}; let processedCount = 0
NewStats ==
    [byRegion |-> <<>>, byRegionAndYear |-> <<>>, byResource |-> <<>>,
     weights |-> <<>>, processedCount |-> 0]

\* UpdateStats that pushes value and weight as the record holds them.
UpdateStats_NoCoercion(st, item) ==
    [byRegion |-> MapPush(st.byRegion, Get(item, "region"), Get(item, "value")),
     byRegionAndYear |-> st.byRegionAndYear,
     byResource |-> MapPush(st.byResource, Get(item, "resource"), Get(item, "value")),
     weights |-> Append(st.weights, Get(item, "weight")),
     processedCount |-> st.processedCount + 1]

\* One iteration of the loop over cleanChunk: the record's value is pushed
\* to the buffers of its region and its resource, its weight to weights.
UpdateStats(st, item) ==
    LET value == ToNumber(Get(item, "value"))
        weight == ToNumber(Get(item, "weight"))
    IN  [byRegion |-> MapPush(st.byRegion, Get(item, "region"), value),
         byRegionAndYear |-> st.byRegionAndYear,
         byResource |-> MapPush(st.byResource, Get(item, "resource"), value),
         weights |-> Append(st.weights, weight),
         processedCount |-> st.processedCount + 1]

\* stats after the loop's first n iterations.
RECURSIVE UpdateFirst(_, _, _)
UpdateFirst(st, cleanChunk, n) ==
    IF n = 0 THEN st
    ELSE UpdateStats(UpdateFirst(st, cleanChunk, n - 1), cleanChunk[n])

\* Compaction that keeps the buffer's smallest entry, not its median.
CompactWeights_KeepFirst(st) ==
    IF Len(st.weights) > CompactionLimit
    THEN [st EXCEPT !.weights = <<SortAscending(st.weights)[1]>>]
    ELSE st

\* Compaction that keeps the buffer's largest entry as well.
CompactWeights_KeepMax(st) ==
    IF Len(st.weights) > CompactionLimit
    THEN [st EXCEPT !.weights = <<median(SortAscending(st.weights)), max(st.weights)>>]
    ELSE st

\* Compaction of a buffer that has reached the limit.
CompactWeights_AtLimit(st) ==
    IF Len(st.weights) >= CompactionLimit
    THEN [st EXCEPT !.weights = <<median(SortAscending(st.weights))>>]
    ELSE st

\* The check after each chunk: a buffer longer than the limit is sorted in
\* place and replaced by the array of its median alone.
CompactWeights(st) ==
    IF Len(st.weights) > CompactionLimit
    THEN [st EXCEPT !.weights = <<median(SortAscending(st.weights))>>]
    ELSE st

\* ProcessChunk that starts every chunk from empty buffers.
ProcessChunk_FreshStats(st, cleanChunk) ==
    CompactWeights(UpdateFirst(NewStats, cleanChunk, Len(cleanChunk)))

\* ProcessChunk that requests the next chunk before the last record of this
\* one is appended.
ProcessChunk_SkipLast(st, cleanChunk) ==
    CompactWeights(UpdateFirst(st, cleanChunk,
                               IF Len(cleanChunk) = 0 THEN 0 ELSE Len(cleanChunk) - 1))

\* The body of the for await loop for one chunk that validates.
ProcessChunk(st, cleanChunk) ==
    CompactWeights(UpdateFirst(st, cleanChunk, Len(cleanChunk)))

\* for (const [label, values] of map) obj[label] = createStatsSummary(values)
RECURSIVE SummariesOfBuffers(_, _)
SummariesOfBuffers(map, n) ==
    IF n = 0 THEN EmptyObject
    ELSE Put(SummariesOfBuffers(map, n - 1), ToString(map[n].key),
             createStatsSummary(map[n].items))

\* The object built after the loop.
FinalResults(st) ==
    [byRegion |-> SummariesOfBuffers(st.byRegion, Len(st.byRegion)),
     byResource |-> SummariesOfBuffers(st.byResource, Len(st.byResource)),
     globalWeight |-> [max |-> max(st.weights), min |-> min(st.weights),
                       median |-> median(st.weights)]]

NoStreamResults ==
    [byRegion |-> EmptyObject, byResource |-> EmptyObject,
     globalWeight |-> [max |-> Undefined, min |-> Undefined, median |-> Undefined]]

\* What the producer hands over: a chunk, or the end of the stream.
NoChunk == [t |-> "undefined", items |-> <<>>]
Nothing == [done |-> FALSE, value |-> NoChunk]
EndOfStream == [done |-> TRUE, value |-> NoChunk]
Chunk(c) == [done |-> FALSE, value |-> c]

\* The whole run on a stream that delivers the chunks cs and ends: the
\* state after the first n chunks, [thrown, stats].
RECURSIVE StreamFirst(_, _)
StreamFirst(cs, n) ==
    IF n = 0 THEN [thrown |-> NoError, stats |-> NewStats]
    ELSE LET before == StreamFirst(cs, n - 1)
             cleaned == validateAndCleanData(cs[n])
         IN  IF before.thrown # NoError THEN before
             ELSE IF cleaned.thrown # NoError
             THEN [thrown |-> cleaned.thrown, stats |-> before.stats]
             ELSE [thrown |-> NoError, stats |-> ProcessChunk(before.stats, cleaned.value)]

calculateStatisticsStream(cs) ==
    LET end == StreamFirst(cs, Len(cs))
    IN  IF end.thrown # NoError
        THEN [thrown |-> end.thrown, value |-> NoStreamResults]
        ELSE [thrown |-> NoError, value |-> FinalResults(end.stats)]

----------------------------------------------------------------------------
(* The handler of POST /api/calculate *)

\* The status of a response on which res.status was not called.
StatusOk == 200
StatusBadRequest == 400
StatusServerError == 500

\* The message of the 400 response.
InvalidFormatMessage == "Error: invalid data format, an array is needed"

\* JSON.stringify of a number: NaN and the infinities become null.
JsonNumber(v) == IF v.t = "number" /\ v.k \in {"nan", "inf"} THEN Null ELSE v

JsonSummary(sm) ==
    [sum |-> JsonNumber(sm.sum), mean |-> JsonNumber(sm.mean),
     max |-> JsonNumber(sm.max), min |-> JsonNumber(sm.min),
     median |-> JsonNumber(sm.median), count |-> sm.count]

JsonSummaries(obj) == [key \in DOMAIN obj |-> JsonSummary(obj[key])]

\* res.json(...) of the object calculateStatistics returned.
JsonResults(r) ==
    [byRegion |-> JsonSummaries(r.byRegion),
     byRegionAndYear |->
        [key \in DOMAIN r.byRegionAndYear |-> JsonSummaries(r.byRegionAndYear[key])],
     byResource |-> JsonSummaries(r.byResource),
     globalWeight |-> [max |-> JsonNumber(r.globalWeight.max),
                       min |-> JsonNumber(r.globalWeight.min),
                       median |-> JsonNumber(r.globalWeight.median)]]

\* A response: its status and the properties of its JSON body (keys names
\* the properties the body has; meta.processedAt, a time stamp, is left
\* out).
Response(status, keys, success, error, data, totalRecords) ==
    [status |-> status, keys |-> keys, success |-> success, error |-> error,
     data |-> data, totalRecords |-> totalRecords]

Failure(status, message) ==
    Response(status, {"success", "error"}, FALSE, message, JsonResults(NoResults), 0)

\* !data: undefined, null, 0 and the empty string are falsy.
Falsy(data) == data.t \in {"undefined", "null", "zero", "emptystring"}

\* The handler without the test of the body's shape.
calculateHandler_NoShapeTest(request) ==
    LET data == request.body.data
        r == calculateStatistics(data)
    IN  IF r.thrown # NoError
        THEN [engineCalls |-> 1, sent |-> <<Failure(StatusServerError, r.thrown)>>]
        ELSE [engineCalls |-> 1,
              sent |-> <<Response(StatusOk, {"success", "data", "meta"}, TRUE, NoError,
                                  JsonResults(r.value), Len(data.items))>>]

\* app.post('/api/calculate', ...): the responses the handler sends, in
\* order, and the number of its calls of calculateStatistics.
calculateHandler(request) ==
    LET data == request.body.data
        r == calculateStatistics(data)
    IN  IF Falsy(data) \/ ~IsArray(data)
        THEN [engineCalls |-> 0, sent |-> <<Failure(StatusBadRequest, InvalidFormatMessage)>>]
        ELSE IF r.thrown # NoError
        THEN [engineCalls |-> 1, sent |-> <<Failure(StatusServerError, r.thrown)>>]
        ELSE [engineCalls |-> 1,
              sent |-> <<Response(StatusOk, {"success", "data", "meta"}, TRUE, NoError,
                                  JsonResults(r.value), Len(data.items))>>]

----------------------------------------------------------------------------
(* Promises *)

\* A promise is [state, value, settleCalls]: settleCalls counts the calls
\* of its resolve and reject functions; only the first has an effect.
Pending(none) == [state |-> "pending", value |-> none, settleCalls |-> 0]

resolve(p, v) ==
    IF p.state = "pending"
    THEN [state |-> "fulfilled", value |-> v, settleCalls |-> p.settleCalls + 1]
    ELSE [p EXCEPT !.settleCalls = @ + 1]

reject(p, reason) ==
    IF p.state = "pending"
    THEN [state |-> "rejected", value |-> reason, settleCalls |-> p.settleCalls + 1]
    ELSE [p EXCEPT !.settleCalls = @ + 1]

----------------------------------------------------------------------------
(* ajax *)

\* The default of options.timeout, in milliseconds.
DefaultTimeout == 5000

\* JSON.parse on the texts of the model: a string of decimal digits is a
\* number, null is null, and any other text (the empty one too) makes it
\* throw a SyntaxError.
JsonParse(text) ==
    IF Len(text) > 0 /\ \A i \in 1..Len(text) : IsDigit(text[i])
    THEN [ok |-> TRUE, value |-> Whole(DigitsValue(text))]
    ELSE IF text = <<"n", "u", "l", "l">> THEN [ok |-> TRUE, value |-> Null]
    ELSE [ok |-> FALSE, value |-> Undefined]

\* method.toUpperCase()
ToUpperCase(method) ==
    IF method = "get" THEN "GET" ELSE IF method = "post" THEN "POST" ELSE method

\* What the promise settles with: { data, status } or { message, status }.
Settlement(message, data, status) == [message |-> message, data |-> data, status |-> status]
NoSettlement == Settlement("", Undefined, 0)

\* new XMLHttpRequest(), after open, the headers, timeout and handlers.
NewXhr(options) ==
    [method |-> ToUpperCase(options.method), data |-> options.data,
     timeout |-> options.timeout, readyState |-> 1, status |-> 0,
     responseText |-> <<>>, outcome |-> "none"]

\* onreadystatechange that rejects when JSON.parse fails.
onreadystatechange_RejectParseError(x, p) ==
    IF x.readyState # 4 THEN p
    ELSE IF x.status >= 200 /\ x.status < 300
    THEN IF JsonParse(x.responseText).ok
         THEN resolve(p, Settlement("", JsonParse(x.responseText).value, x.status))
         ELSE reject(p, Settlement("parse error", Undefined, x.status))
    ELSE reject(p, Settlement("http error", Undefined, x.status))

\* xhr.onreadystatechange
onreadystatechange(x, p) ==
    IF x.readyState # 4 THEN p
    ELSE IF x.status >= 200 /\ x.status < 300
    THEN LET parsed == JsonParse(x.responseText)
             response == IF parsed.ok THEN parsed.value ELSE Str(x.responseText)
         IN  resolve(p, Settlement("", response, x.status))
    ELSE reject(p, Settlement("http error", Undefined, x.status))

\* xhr.onerror
onerror(x, p) == reject(p, Settlement("network error", Undefined, x.status))

\* xhr.ontimeout
ontimeout(x, p) == reject(p, Settlement("timeout error", Undefined, x.status))

\* The try block around xhr.send: JSON.stringify throws on an object that
\* contains itself.
SendThrows(x) == x.method # "GET" /\ x.data = "circular"

----------------------------------------------------------------------------
(* throttle *)

\* timer = null
NoTimer == -1

\* throttle(fn, delay, options): the closure of the returned function.
NewThrottled(delay, options) ==
    [lastTime |-> 0, leading |-> options.leading, trailing |-> options.trailing,
     timer |-> NoTimer, delay |-> delay, options |-> options]

\* One call of the returned function at time t: the closure after it, and
\* the number of executions of fn the call made itself.
ThrottledCall(th, t) ==
    LET byLeading == IF th.leading THEN 1 ELSE 0
        elapsed == t - th.lastTime >= th.delay
        byElapsed == IF elapsed THEN 1 ELSE 0
    IN  [closure |->
            [th EXCEPT !.leading = FALSE,
                       !.lastTime = IF elapsed THEN t ELSE @,
                       !.timer = IF th.trailing THEN t + th.delay ELSE @],
         executed |-> byLeading + byElapsed]

----------------------------------------------------------------------------
(* generatorToAsync *)

\* A generator function is a sequence of yield statements and an end. A yield
\* statement yields a plain value ("value") or a promise that is later
\* fulfilled ("resolve") or rejected ("reject"), and stands inside a
\* try / catch of the generator or not (guarded). The generator ends with a
\* return or by throwing.
YieldValues == <<"v1", "v2", "v3", "v4">>
ReturnValue == "returned"
GeneratorError == "error"

\* iter = gen(...args): nothing has run yet.
NewIterator == [pos |-> 0, received |-> <<>>, done |-> FALSE, completion |-> "none"]

\* The generator runs from where it stands to its next yield or to its end.
RunOn(g, it) ==
    IF it.pos < Len(g.body)
    THEN [iter |-> [it EXCEPT !.pos = @ + 1],
          type |-> "yield", value |-> YieldValues[it.pos + 1]]
    ELSE IF g.end = "return"
    THEN [iter |-> [it EXCEPT !.done = TRUE, !.completion = "return"],
          type |-> "return", value |-> ReturnValue]
    ELSE [iter |-> [it EXCEPT !.done = TRUE, !.completion = "throw"],
          type |-> "throw", value |-> GeneratorError]

\* iter.next(arg): arg is the result of the yield the generator stands at.
IterNext(g, it, arg) ==
    IF it.pos = 0
    THEN RunOn(g, it)
    ELSE RunOn(g, [it EXCEPT !.received = Append(@, [key |-> "next", arg |-> arg])])

\* iter.throw(err): err is thrown at the yield the generator stands at; a
\* generator that does not catch it is finished by it.
IterThrow(g, it, err) ==
    IF it.pos > 0 /\ g.body[it.pos].guarded
    THEN RunOn(g, [it EXCEPT !.received = Append(@, [key |-> "throw", arg |-> err])])
    ELSE [iter |-> [it EXCEPT !.done = TRUE, !.completion = "throw"],
          type |-> "throw", value |-> err]

\* step(key, arg), written Step because step is a bound identifier of the
\* rounding definitions: the iterator, the promise of the call, and where the
\* step ended: "awaiting" the promise of the yielded value, "finished" after
\* resolve(value), or "threw" when the step itself raised. A throw of the
\* generator is caught and handed to reject, and the destructuring of the
\* undefined result that follows raises a TypeError.
Step(g, it, p, key, arg) ==
    LET result == IF key = "next" THEN IterNext(g, it, arg) ELSE IterThrow(g, it, arg)
    IN  IF result.type = "throw"
        THEN [iter |-> result.iter, promise |-> reject(p, result.value), pc |-> "threw"]
        ELSE IF result.type = "return"
        THEN [iter |-> result.iter, promise |-> resolve(p, result.value), pc |-> "finished"]
        ELSE [iter |-> result.iter, promise |-> p, pc |-> "awaiting"]

\* The first callback of then: the yielded promise was fulfilled with v.
onFulfilled(g, it, p, v) == Step(g, it, p, "next", v)

\* The second callback of then, resuming with next instead of throw.
onRejected_Next(g, it, p, err) == Step(g, it, p, "next", err)

\* The second callback of then: the yielded promise was rejected with err.
onRejected(g, it, p, err) == Step(g, it, p, "throw", err)

\* Promise.resolve(value) of the value the generator yielded at statement i.
PromiseResolve(g, i) ==
    IF g.body[i].settles = "value"
    THEN resolve(Pending("undefined"), YieldValues[i])
    ELSE Pending("undefined")

----------------------------------------------------------------------------
(* The summarizer applied to one sequence of numbers. *)

\* The numbers a value sequence is drawn from: integers, a negative
\* number, a number with a seventh decimal digit, a double near the top of
\* the range, and the non-finite numbers.
StatsNumbers ==
    {Whole(1), Whole(2), Whole(3), Whole(4), Num(-15 * (Unit \div 10)), Num(5),
     Big(1), NaN, Infinity}

RECURSIVE SeqsUpTo(_, _)
SeqsUpTo(S, n) ==
    IF n = 0 THEN {<<>>}
    ELSE LET shorter == SeqsUpTo(S, n - 1)
         IN  shorter \cup {Append(q, x) : q \in {r \in shorter : Len(r) = n - 1}, x \in S}

NoSummary == [sum |-> Undefined, mean |-> Undefined, max |-> Undefined,
              min |-> Undefined, median |-> Undefined, count |-> 0]

EngineIdle ==
    /\ rawData = [t |-> "undefined", items |-> <<>>]
    /\ validated = <<>>
    /\ results = NoResults
    /\ thrown = NoError
    /\ pc = "idle"
StatsIdle == values = <<>> /\ summary = NoSummary /\ statsPc = "idle"
RoundIdle == num = Undefined /\ precision = Undefined /\ rounded = Undefined /\ roundPc = "idle"
DivideIdle ==
    dividend = Undefined /\ divisor = Undefined /\ quotient = Undefined /\ dividePc = "idle"
StreamIdle ==
    /\ chunks = [r \in Runs |-> <<>>]
    /\ cursor = [r \in Runs |-> 0]
    /\ delivered = [r \in Runs |-> Nothing]
    /\ stats = [r \in Runs |-> NewStats]
    /\ streamResults = [r \in Runs |-> NoStreamResults]
    /\ streamThrown = [r \in Runs |-> NoError]
    /\ streamPc = [r \in Runs |-> "idle"]
HttpIdle ==
    /\ req = [body |-> [data |-> [t |-> "undefined", items |-> <<>>]]]
    /\ res = <<>>
    /\ httpPc = "idle"
AjaxIdle ==
    /\ xhr = NewXhr([method |-> "GET", data |-> "null", timeout |-> 0])
    /\ promise = Pending(NoSettlement)
    /\ ajaxPc = "idle"
ThrottleIdle ==
    /\ throttled = NewThrottled(0, [leading |-> FALSE, trailing |-> FALSE])
    /\ now = 0
    /\ executions = <<>>
    /\ calls = 0
    /\ throttlePc = "idle"
GenIdle ==
    /\ gen = [body |-> <<>>, end |-> "return"]
    /\ iter = NewIterator
    /\ yielded = Pending("undefined")
    /\ asyncPromise = Pending("undefined")
    /\ genPc = "idle"
WebIdle == AjaxIdle /\ ThrottleIdle /\ GenIdle
CoreIdle ==
    EngineIdle /\ StatsIdle /\ RoundIdle /\ DivideIdle /\ StreamIdle /\ HttpIdle

InitStats ==
    /\ values \in SeqsUpTo(StatsNumbers, MaxValues)
    /\ summary = NoSummary
    /\ statsPc = "call"
    /\ RoundIdle
    /\ EngineIdle
    /\ DivideIdle
    /\ StreamIdle
    /\ HttpIdle
    /\ WebIdle

CreateStatsSummary ==
    /\ statsPc = "call"
    /\ summary' = createStatsSummary(values)
    /\ statsPc' = "done"
    /\ UNCHANGED <<values, roundVars, engineVars, divideVars, streamVars, httpVars>>
    /\ UNCHANGED webVars

NextStats == CreateStatsSummary

SpecStats == InitStats /\ [][NextStats]_vars

Range(q) == {q[i] : i \in 1..Len(q)}

\* The k-th smallest (k from 1) of a non-empty sequence of finite doubles:
\* fewer than k entries are below it and at least k are not above it.
Kth(fin, k) ==
    CHOOSE x \in Range(fin) :
        /\ Cardinality({i \in 1..Len(fin) : Compare(fin[i], x) < 0}) < k
        /\ Cardinality({i \in 1..Len(fin) : Compare(fin[i], x) <= 0}) >= k

\* C6: max and min are 0 when no finite entry remains (an empty sequence,
\* or one of NaN and infinities only), and otherwise the largest and the
\* smallest of the finite entries.
C6_MaxMinOverFinite ==
    statsPc = "done" =>
        LET fin == FilterFinite(values)
        IN  IF Len(fin) = 0
            THEN summary.max = Num(0) /\ summary.min = Num(0)
            ELSE /\ summary.max \in Range(fin)
                 /\ \A x \in Range(fin) : Compare(x, summary.max) <= 0
                 /\ summary.min \in Range(fin)
                 /\ \A x \in Range(fin) : Compare(x, summary.min) >= 0

\* C7: the median is 0 when no finite entry remains; for an odd number of
\* finite entries it is the middle one in ascending order, unrounded; for
\* an even number it is divide(add(lower middle, upper middle), 2).
C7_Median ==
    statsPc = "done" =>
        LET fin == FilterFinite(values)
            n == Len(fin)
        IN  IF n = 0 THEN summary.median = Num(0)
            ELSE IF n % 2 = 1 THEN summary.median = Kth(fin, (n + 1) \div 2)
            ELSE summary.median =
                    divide(add(Kth(fin, n \div 2), Kth(fin, n \div 2 + 1)), Whole(2))

\* An unsorted even-length sequence: the median of [4, 1, 3, 2] is 2.5.
C7_Witness ==
    /\ statsPc = "done"
    /\ values = <<Whole(4), Whole(1), Whole(3), Whole(2)>>
    /\ summary.median = Num(25 * (Unit \div 10))

\* The left-to-right fold of add from 0 over the first i entries, a
\* non-finite entry adding 0.
RECURSIVE FoldAdd(_, _)
FoldAdd(vs, i) ==
    IF i = 0 THEN Num(0)
    ELSE add(FoldAdd(vs, i - 1), IF NumberIsFinite(vs[i]) THEN vs[i] ELSE Num(0))

\* C8: sum is the left-to-right fold of add from 0 in which a non-finite
\* entry adds 0, mean is divide(sum, n) with n the length of the unfiltered
\* sequence, and both are finite numbers for every sequence.
C8_SumMeanFinite ==
    statsPc = "done" =>
        /\ summary.sum = FoldAdd(values, Len(values))
        /\ summary.mean = divide(summary.sum, Whole(Len(values)))
        /\ NumberIsFinite(summary.sum)
        /\ NumberIsFinite(summary.mean)

\* C9: the summarizer applied to the empty sequence yields 0 for sum, mean,
\* max, min, median and count.
C9_EmptySummary ==
    (statsPc = "done" /\ values = <<>>) =>
        summary = [sum |-> Num(0), mean |-> Num(0), max |-> Num(0),
                   min |-> Num(0), median |-> Num(0), count |-> 0]

C9_Witness == statsPc = "done" /\ Len(values) = 0 /\ summary.count = 0

----------------------------------------------------------------------------
(* precisionHelper.round applied to one value. *)

\* The values round is called on: decimals around 0 with a seventh digit,
\* halves, doubles near the top of the range, the non-finite numbers, and
\* values that are no numbers.
RoundInputs ==
    {Num(n) : n \in -RoundSpan..RoundSpan}
    \cup {Num(h * (Unit \div 2)) : h \in {-5, -3, -1, 1, 3, 5}}
    \cup {Big(1), Big(-1), Big(2), NaN, Infinity, NegInfinity,
          Undefined, Null, Str(<<"5">>)}

\* The precision argument: left out (undefined), or 0..Digits.
PrecisionArgs == {Undefined} \cup {Whole(p) : p \in 0..Digits}

\* A parameter's default applies when the argument is undefined.
PrecisionOf(arg) == IF arg = Undefined THEN DefaultPrecision ELSE arg.n \div Unit

InitRound ==
    /\ num \in RoundInputs
    /\ precision \in PrecisionArgs
    /\ rounded = Undefined
    /\ roundPc = "call"
    /\ StatsIdle
    /\ EngineIdle
    /\ DivideIdle
    /\ StreamIdle
    /\ HttpIdle
    /\ WebIdle

Round ==
    /\ roundPc = "call"
    /\ rounded' = round(num, PrecisionOf(precision))
    /\ roundPc' = "done"
    /\ UNCHANGED <<num, precision, statsVars, engineVars, divideVars, streamVars, httpVars>>
    /\ UNCHANGED webVars

NextRound == Round

SpecRound == InitRound /\ [][NextRound]_vars

\* r is x rounded to the multiple of step nearest to it.
NearestStep(r, x, step) ==
    /\ r.t = "number" /\ r.k = "fin" /\ r.d = 1
    /\ r.n % step = 0
    /\ 2 * Abs(r.n - x.n) <= step

\* x lies halfway between two multiples of step.
IsTie(x, step) == step > 1 /\ x.n % step = step \div 2

----------------------------------------------------------------------------
(* precisionHelper.divide applied to two values. *)

\* The operands divide is called on: zero, integers of both signs, a
\* half, doubles near the top of the range, the non-finite numbers, and
\* values that are no numbers.
DivideInputs ==
    {Whole(0), Whole(1), Whole(2), Whole(-2), Whole(3), Num(Unit \div 2),
     Big(1), Big(-2), Num(1), NaN, Infinity, NegInfinity,
     Undefined, Null, Str(<<"2">>)}

\* Num(1), the smallest step of the model, is tried as a divisor of the
\* large doubles only: the quotient of an ordinary double by it has no
\* representation in the model.
InitDivide ==
    /\ dividend \in DivideInputs
    /\ divisor \in DivideInputs
    /\ (divisor = Num(1) \/ dividend = Num(1)) => (dividend.k = "big" /\ divisor = Num(1))
    /\ quotient = Undefined
    /\ dividePc = "call"
    /\ StatsIdle
    /\ RoundIdle
    /\ EngineIdle
    /\ StreamIdle
    /\ HttpIdle
    /\ WebIdle

Divide ==
    /\ dividePc = "call"
    /\ quotient' = divide(dividend, divisor)
    /\ dividePc' = "done"
    /\ UNCHANGED <<dividend, divisor, statsVars, roundVars, engineVars, streamVars, httpVars>>
    /\ UNCHANGED webVars

NextDivide == Divide

SpecDivide == InitDivide /\ [][NextDivide]_vars

\* C11: divide always returns a finite number: 0 when an operand is no
\* finite number or the divisor is 0, and round(a / b) otherwise.
C11_DivideFinite ==
    dividePc = "done" =>
        /\ NumberIsFinite(quotient)
        /\ (~NumberIsFinite(dividend) \/ ~NumberIsFinite(divisor) \/ divisor = Whole(0))
              => quotient = Num(0)
        /\ (NumberIsFinite(dividend) /\ NumberIsFinite(divisor) /\ divisor # Whole(0))
              => quotient = round(Over(dividend, divisor), DefaultPrecision)

\* C11 without the doubles whose quotient, scaled by 10^6, leaves the
\* double range: there the result is finite, 0 or round(a / b) as stated.
C11_DivideFiniteBelowOverflow ==
    (dividePc = "done" /\ dividend.k # "big") => C11_DivideFinite

----------------------------------------------------------------------------
(* validateAndCleanData applied to one input. *)

LabelA == Str(<<"A">>)
LabelB == Str(<<"B">>)
\* A region label that holds the separator of the region-and-year key.
LabelA1 == Str(<<"A", "|", "1">>)
ResourceX == Str(<<"X">>)
ResourceY == Str(<<"Y">>)

GoodRecord == Record(Str(<<"1">>), LabelA, ResourceX, Whole(1), Whole(1), Whole(2))

\* A record whose fields are unusual and all acceptable: a number as id,
\* the empty string as region, a string of digits as year, a boolean as
\* value and the empty string as weight (Number('') is 0).
OddRecord == Record(Whole(7), Str(<<>>), ResourceY, Str(<<"2">>), Bool(TRUE), Str(<<>>))

WithField(record, field, v) == [record EXCEPT !.f[field] = v]

\* Each defect once: a missing property, null, undefined, a string that
\* is no number, NaN, an infinity; every field defective at least once.
BadRecords ==
    {WithField(GoodRecord, "id", Absent),
     WithField(GoodRecord, "region", Null),
     WithField(GoodRecord, "resource", Undefined),
     WithField(GoodRecord, "year", Str(<<"x">>)),
     WithField(GoodRecord, "year", Undefined),
     WithField(GoodRecord, "value", NaN),
     WithField(GoodRecord, "value", Null),
     WithField(GoodRecord, "weight", Infinity),
     WithField(GoodRecord, "weight", Absent)}

\* Elements that are no objects.
NonObjects ==
    {Primitive("null"), Primitive("undefined"), Primitive("number"), Primitive("string")}

ItemPool == {GoodRecord, OddRecord} \cup BadRecords \cup NonObjects

Array(items) == [t |-> "array", items |-> items]

\* Inputs that are no arrays: null, undefined, an object, a string.
NonArrays == {[t |-> t, items |-> <<>>] : t \in {"null", "undefined", "object", "string"}}

InitValidate ==
    /\ rawData \in {Array(items) : items \in SeqsUpTo(ItemPool, MaxItems)} \cup NonArrays
    /\ validated = <<>>
    /\ results = NoResults
    /\ thrown = NoError
    /\ pc = "call"
    /\ StatsIdle
    /\ RoundIdle
    /\ DivideIdle
    /\ StreamIdle
    /\ HttpIdle
    /\ WebIdle

ValidateAndCleanData ==
    /\ pc = "call"
    /\ LET r == validateAndCleanData(rawData)
       IN  validated' = r.value /\ thrown' = r.thrown /\ rawData' = r.data
    /\ pc' = "done"
    /\ UNCHANGED <<results, statsVars, roundVars, divideVars, streamVars, httpVars>>
    /\ UNCHANGED webVars

NextValidate == ValidateAndCleanData

SpecValidate == InitValidate /\ [][NextValidate]_vars

\* C2: on an array the validator never raises, whatever the elements are
\* (a null element is dropped too); it raises only on an input that is no
\* array.
C2_ValidatorNeverRaisesOnArray ==
    pc = "done" =>
        /\ IsArray(rawData) => thrown = NoError
        /\ ~IsArray(rawData) => thrown = ArrayFormatError

\* The record carries all six required fields with values that are neither
\* null nor undefined, and year, value and weight coerce to finite numbers.
Conforms(item) ==
    /\ \A field \in FieldNames : item.f[field] \notin {Absent, Null, Undefined}
    /\ \A field \in {"year", "value", "weight"} :
          ToNumber(item.f[field]).k \in {"fin", "big"}

\* C3: on an array of object records the validator returns exactly the
\* records that conform, in their input order.
C3_RetainsConformingRecords ==
    (pc = "done" /\ IsArray(rawData)
        /\ \A i \in 1..Len(rawData.items) : rawData.items[i].t = "object") =>
        /\ thrown = NoError
        /\ validated = SelectSeq(rawData.items, Conforms)

\* [bad, bad, good] yields exactly [good], here with a record whose
\* numeric fields are no numbers and are kept through Number().
C3_Witness ==
    /\ pc = "done"
    /\ rawData = Array(<<WithField(GoodRecord, "id", Absent),
                         WithField(GoodRecord, "year", Str(<<"x">>)),
                         OddRecord>>)
    /\ validated = <<OddRecord>>

----------------------------------------------------------------------------
(* calculateStatistics applied to one input. *)

\* Records of two regions, two years and two resources, with a group of two
\* records, a label holding '|', and numeric fields given as strings.
RecordPool ==
    {Record(Str(<<"1">>), LabelA, ResourceX, Whole(1), Whole(1), Whole(2)),
     Record(Str(<<"2">>), LabelA, ResourceX, Whole(1), Whole(2), Whole(1)),
     Record(Str(<<"3">>), LabelA, ResourceY, Whole(2), Whole(3), Whole(3)),
     Record(Str(<<"4">>), LabelB, ResourceX, Whole(1), Whole(4), Whole(1)),
     Record(Str(<<"5">>), LabelA1, ResourceY, Whole(2), Whole(2), Whole(4)),
     Record(Str(<<"6">>), LabelB, ResourceY, Whole(2), Str(<<"3">>), Str(<<"2">>)),
     WithField(GoodRecord, "year", Str(<<"x">>)),
     Primitive("null")}

Init ==
    /\ rawData \in {Array(items) : items \in SeqsUpTo(RecordPool, MaxRecords)} \cup NonArrays
    /\ validated = <<>>
    /\ results = NoResults
    /\ thrown = NoError
    /\ pc = "call"
    /\ StatsIdle
    /\ RoundIdle
    /\ DivideIdle
    /\ StreamIdle
    /\ HttpIdle
    /\ WebIdle

CalculateStatistics ==
    /\ pc = "call"
    /\ LET r == calculateStatistics(rawData)
       IN  results' = r.value /\ thrown' = r.thrown /\ rawData' = r.data
    /\ pc' = "done"
    /\ UNCHANGED <<validated, statsVars, roundVars, divideVars, streamVars, httpVars>>
    /\ UNCHANGED webVars

Next == CalculateStatistics

Spec == Init /\ [][Next]_vars

\* The elements of the input that are valid records, in input order.
ValidRecords == SelectSeq(rawData.items, Conforms)

\* C1: on an array none of whose elements survives validation (the empty
\* array too) the call fails with the 'no valid records' error and returns
\* nothing; an input that is no array fails with another error.
C1_NoValidRecordsError ==
    pc = "done" =>
        /\ (IsArray(rawData) /\ Len(ValidRecords) = 0) =>
              thrown = NoValidRecordsError /\ results = NoResults
        /\ ~IsArray(rawData) =>
              thrown = ArrayFormatError /\ thrown # NoValidRecordsError

\* The values of the valid records whose field `field` is `label`.
ValuesWhere(field, label) ==
    LET matching == SelectSeq(ValidRecords, LAMBDA r : ToString(r.f[field]) = label)
    IN  [i \in 1..Len(matching) |-> ToNumber(matching[i].f.value)]

LabelsOf(field) == {ToString(ValidRecords[i].f[field]) : i \in 1..Len(ValidRecords)}

\* byRegion and byResource hold one Summary per distinct label, that of the
\* values of the valid records with the label; globalWeight holds max, min
\* and median of all their weights.
GroupSummaries ==
    /\ DOMAIN results.byRegion = LabelsOf("region")
    /\ \A label \in LabelsOf("region") :
          results.byRegion[label] = createStatsSummary(ValuesWhere("region", label))
    /\ DOMAIN results.byResource = LabelsOf("resource")
    /\ \A label \in LabelsOf("resource") :
          results.byResource[label] = createStatsSummary(ValuesWhere("resource", label))
    /\ LET weights == [i \in 1..Len(ValidRecords) |-> ToNumber(ValidRecords[i].f.weight)]
       IN  results.globalWeight =
              [max |-> max(weights), min |-> min(weights), median |-> median(weights)]

\* C4: for any input with at least one valid record the call returns
\* byRegion, byResource and globalWeight as GroupSummaries describes.
C4_GroupSummaries ==
    (pc = "done" /\ IsArray(rawData) /\ Len(ValidRecords) > 0) =>
        thrown = NoError /\ GroupSummaries

\* C4 where the call returns: the result is as GroupSummaries describes.
C4_GroupSummariesWhenReturned ==
    (pc = "done" /\ thrown = NoError) => GroupSummaries

\* The values of the valid records with the region and year of r.
ValuesOfRegionYear(r) ==
    LET matching == SelectSeq(ValidRecords,
                        LAMBDA q : /\ q.f.region = r.f.region
                                   /\ ToNumber(q.f.year) = ToNumber(r.f.year))
    IN  [i \in 1..Len(matching) |-> ToNumber(matching[i].f.value)]

\* C5: in a returned result, for every valid record r and whatever its
\* region label holds, byRegionAndYear[r.region][r.year] exists and is the
\* Summary of the values of the valid records with r's region and year.
C5_RegionYearEntries ==
    (pc = "done" /\ thrown = NoError) =>
        \A i \in 1..Len(ValidRecords) :
            LET r == ValidRecords[i]
                region == ToString(r.f.region)
                year == ToString(r.f.year)
            IN  /\ region \in DOMAIN results.byRegionAndYear
                /\ year \in DOMAIN results.byRegionAndYear[region]
                /\ results.byRegionAndYear[region][year] =
                      createStatsSummary(ValuesOfRegionYear(r))

----------------------------------------------------------------------------
(* calculateStatisticsStream applied to chunked streams. *)

\* Two valid records of different weights, regions and resources, one with
\* its value given as a string; a record the validator drops; and a null
\* element.
StreamRecord1 == Record(Str(<<"1">>), LabelA, ResourceX, Whole(1), Whole(1), Whole(4))
StreamRecord2 == Record(Str(<<"2">>), LabelB, ResourceX, Whole(2), Str(<<"3">>), Whole(1))

StreamPool ==
    {StreamRecord1, StreamRecord2,
     WithField(GoodRecord, "year", Str(<<"x">>)), Primitive("null")}

PairPool == {StreamRecord1, StreamRecord2, Primitive("null")}

\* The records cut into consecutive chunks: a chunk ends after each
\* position in cuts and at the end of the records.
RECURSIVE ChunkFrom(_, _, _)
ChunkFrom(records, cuts, start) ==
    IF start > Len(records) THEN <<>>
    ELSE LET ends == {c \in cuts : c >= start} \cup {Len(records)}
             end == CHOOSE c \in ends : \A e \in ends : c <= e
         IN  <<Array(SubSeq(records, start, end))>> \o ChunkFrom(records, cuts, end + 1)

Chunkings(records) ==
    {ChunkFrom(records, cuts, 1) : cuts \in SUBSET (1..(Len(records) - 1))}

\* What a stream may deliver after its records: nothing, an empty chunk,
\* or a chunk that is no array.
StreamTails == {<<>>, <<Array(<<>>)>>, <<[t |-> "object", items |-> <<>>]>>}

\* The local object stats of run r.
StatsOf_Shared(r) == stats[1]

StatsOf(r) == stats[r]

\* The producer of run r answers the pending request: with the next chunk,
\* or with the end of the stream.
Produce(r) ==
    /\ streamPc[r] = "wait"
    /\ IF cursor[r] < Len(chunks[r])
       THEN /\ delivered' = [delivered EXCEPT ![r] = Chunk(chunks[r][cursor[r] + 1])]
            /\ cursor' = [cursor EXCEPT ![r] = @ + 1]
       ELSE /\ delivered' = [delivered EXCEPT ![r] = EndOfStream]
            /\ UNCHANGED cursor
    /\ streamPc' = [streamPc EXCEPT ![r] = "ready"]
    /\ UNCHANGED <<chunks, stats, streamResults, streamThrown>>
    /\ UNCHANGED <<engineVars, statsVars, roundVars, divideVars, httpVars>>
    /\ UNCHANGED webVars

\* Run r resumes with what was delivered and runs to its next suspension:
\* it processes the chunk and requests the next one, or rejects with the
\* validator's error, or, at the end of the stream, resolves with the
\* results.
Consume(r) ==
    /\ streamPc[r] = "ready"
    /\ IF delivered[r].done
       THEN /\ streamResults' = [streamResults EXCEPT ![r] = FinalResults(StatsOf(r))]
            /\ streamPc' = [streamPc EXCEPT ![r] = "resolved"]
            /\ UNCHANGED <<chunks, stats, streamThrown>>
       ELSE LET cleaned == validateAndCleanData(delivered[r].value)
            IN  /\ chunks' = [chunks EXCEPT ![r][cursor[r]] = cleaned.data]
                /\ IF cleaned.thrown # NoError
                   THEN /\ streamThrown' = [streamThrown EXCEPT ![r] = cleaned.thrown]
                        /\ streamPc' = [streamPc EXCEPT ![r] = "rejected"]
                        /\ UNCHANGED <<stats, streamResults>>
                   ELSE /\ stats' = [stats EXCEPT ![r] = ProcessChunk(StatsOf(r), cleaned.value)]
                        /\ streamPc' = [streamPc EXCEPT ![r] = "wait"]
                        /\ UNCHANGED <<streamResults, streamThrown>>
    /\ delivered' = [delivered EXCEPT ![r] = Nothing]
    /\ UNCHANGED cursor
    /\ UNCHANGED <<engineVars, statsVars, roundVars, divideVars, httpVars>>
    /\ UNCHANGED webVars

\* calculateStatistics, called while runs are in progress.
BatchCall ==
    /\ pc = "call"
    /\ LET r == calculateStatistics(rawData)
       IN  results' = r.value /\ thrown' = r.thrown /\ rawData' = r.data
    /\ pc' = "done"
    /\ UNCHANGED <<validated, statsVars, roundVars, divideVars, streamVars, httpVars>>
    /\ UNCHANGED webVars

\* One run over the records cut into chunks, and calculateStatistics on
\* the same records.
InitStream ==
    /\ \E records \in SeqsUpTo(StreamPool, MaxStream) :
        \E cs \in Chunkings(records), tail \in StreamTails :
            /\ chunks = [r \in Runs |-> IF r = 1 THEN cs \o tail ELSE <<>>]
            /\ rawData = Array(records)
    /\ cursor = [r \in Runs |-> 0]
    /\ delivered = [r \in Runs |-> Nothing]
    /\ stats = [r \in Runs |-> NewStats]
    /\ streamResults = [r \in Runs |-> NoStreamResults]
    /\ streamThrown = [r \in Runs |-> NoError]
    /\ streamPc = [r \in Runs |-> IF r = 1 THEN "wait" ELSE "idle"]
    /\ validated = <<>>
    /\ results = NoResults
    /\ thrown = NoError
    /\ pc = "call"
    /\ StatsIdle
    /\ RoundIdle
    /\ DivideIdle
    /\ HttpIdle
    /\ WebIdle

NextStream == BatchCall \/ (\E r \in Runs : Produce(r)) \/ (\E r \in Runs : Consume(r))

SpecStream == InitStream /\ [][NextStream]_vars

\* Two runs at once, each over its own records cut into chunks, and
\* calculateStatistics on the records of the first.
InitStreams ==
    /\ \E records1 \in SeqsUpTo(PairPool, MaxPair), records2 \in SeqsUpTo(PairPool, MaxPair) :
        \E cs1 \in Chunkings(records1), cs2 \in Chunkings(records2) :
            /\ chunks = [r \in Runs |-> IF r = 1 THEN cs1 ELSE cs2]
            /\ rawData = Array(records1)
    /\ cursor = [r \in Runs |-> 0]
    /\ delivered = [r \in Runs |-> Nothing]
    /\ stats = [r \in Runs |-> NewStats]
    /\ streamResults = [r \in Runs |-> NoStreamResults]
    /\ streamThrown = [r \in Runs |-> NoError]
    /\ streamPc = [r \in Runs |-> "wait"]
    /\ validated = <<>>
    /\ results = NoResults
    /\ thrown = NoError
    /\ pc = "call"
    /\ StatsIdle
    /\ RoundIdle
    /\ DivideIdle
    /\ HttpIdle
    /\ WebIdle

SpecStreams == InitStreams /\ [][NextStream]_vars

\* The run has settled.
Finished(r) == streamPc[r] \in {"resolved", "rejected"}

\* No compaction of run r's weight buffer so far: it holds one weight for
\* each record processed.
NoCompaction(r) == Len(stats[r].weights) = stats[r].processedCount

AllArrays(cs) == \A k \in 1..Len(cs) : IsArray(cs[k])

\* The elements of the chunks that are arrays, in stream order.
RECURSIVE Concat(_)
Concat(cs) ==
    IF Len(cs) = 0 THEN <<>>
    ELSE Concat(SubSeq(cs, 1, Len(cs) - 1)) \o
         (IF IsArray(cs[Len(cs)]) THEN cs[Len(cs)].items ELSE <<>>)

\* The weights of the valid records among items.
ValidWeights(items) == NumbersOf(SelectSeq(items, Conforms), "weight")

\* C12: every group in a result holds at least one value: count >= 1 for
\* each entry of byRegion and byResource of a batch result and of a
\* stream result, and for each nested entry of byRegionAndYear; and a
\* buffer of a run in progress is never empty.
C12_GroupsNonEmpty ==
    /\ (pc = "done" /\ thrown = NoError) =>
          /\ \A label \in DOMAIN results.byRegion : results.byRegion[label].count >= 1
          /\ \A label \in DOMAIN results.byResource : results.byResource[label].count >= 1
          /\ \A region \in DOMAIN results.byRegionAndYear :
                \A year \in DOMAIN results.byRegionAndYear[region] :
                    results.byRegionAndYear[region][year].count >= 1
    /\ \A r \in Runs :
          /\ \A i \in 1..Len(stats[r].byRegion) : Len(stats[r].byRegion[i].items) >= 1
          /\ \A i \in 1..Len(stats[r].byResource) : Len(stats[r].byResource[i].items) >= 1
          /\ streamPc[r] = "resolved" =>
                /\ \A label \in DOMAIN streamResults[r].byRegion :
                      streamResults[r].byRegion[label].count >= 1
                /\ \A label \in DOMAIN streamResults[r].byResource :
                      streamResults[r].byResource[label].count >= 1

\* Both modes have returned groups, one of them of a single record.
C12_Witness ==
    /\ pc = "done" /\ thrown = NoError
    /\ streamPc[1] = "resolved"
    /\ Cardinality(DOMAIN results.byRegion) = 2
    /\ Cardinality(DOMAIN streamResults[1].byRegion) = 2
    /\ \E label \in DOMAIN streamResults[1].byRegion :
          streamResults[1].byRegion[label].count = 1
    /\ \E region \in DOMAIN results.byRegionAndYear :
          \E year \in DOMAIN results.byRegionAndYear[region] :
              results.byRegionAndYear[region][year].count = 1

\* C13: two runs over the same records, cut into chunks differently and
\* neither compacting its weight buffer, end alike, with identical
\* byRegion and byResource.
C13_ChunkBoundariesUnobservable ==
    (/\ Finished(1) /\ Finished(2)
     /\ Concat(chunks[1]) = Concat(chunks[2])
     /\ NoCompaction(1) /\ NoCompaction(2)) =>
        /\ streamPc[1] = streamPc[2]
        /\ streamThrown[1] = streamThrown[2]
        /\ streamResults[1].byRegion = streamResults[2].byRegion
        /\ streamResults[1].byResource = streamResults[2].byResource

\* One chunk of two records against two chunks of one.
C13_Witness ==
    /\ streamPc[1] = "resolved" /\ streamPc[2] = "resolved"
    /\ Len(chunks[1]) = 1 /\ Len(chunks[2]) = 2
    /\ Concat(chunks[1]) = Concat(chunks[2])
    /\ Cardinality(DOMAIN streamResults[1].byRegion) = 2
    /\ streamResults[1].byRegion = streamResults[2].byRegion

\* C14: for a stream of array chunks with at least one valid record and no
\* compaction, the run ends as calculateStatistics does on the
\* concatenation of the chunks, with equal byRegion, byResource and
\* globalWeight.
C14_StreamRefinesBatch ==
    (/\ Finished(1) /\ pc = "done"
     /\ AllArrays(chunks[1])
     /\ Concat(chunks[1]) = rawData.items
     /\ Len(ValidRecords) > 0
     /\ NoCompaction(1)) =>
        /\ streamThrown[1] = thrown
        /\ thrown = NoError =>
              /\ streamPc[1] = "resolved"
              /\ streamResults[1].byRegion = results.byRegion
              /\ streamResults[1].byResource = results.byResource
              /\ streamResults[1].globalWeight = results.globalWeight

\* Two chunks, a record the validator drops and a value given as a string.
C14_Witness ==
    /\ streamPc[1] = "resolved" /\ pc = "done" /\ thrown = NoError
    /\ Len(chunks[1]) = 2
    /\ Len(rawData.items) = 3 /\ Len(ValidRecords) = 2
    /\ StreamRecord2 \in Range(rawData.items)
    /\ NoCompaction(1)
    /\ streamResults[1].globalWeight = results.globalWeight
    /\ streamResults[1].byRegion = results.byRegion

\* C15: a chunk-processing step that leaves the weight buffer, with the
\* chunk's valid weights appended, longer than the limit replaces it by the
\* array of the median of its contents alone, and otherwise only appends;
\* the final globalWeight is max, min and median of the buffer as it then
\* is: the last median and the weights appended after it.
C15_CompactionLossy ==
    [][\A r \in Runs :
        /\ (streamPc[r] = "ready" /\ streamPc'[r] = "wait") =>
              LET appended == stats[r].weights \o ValidWeights(delivered[r].value.items)
              IN  stats'[r].weights =
                     IF Len(appended) > CompactionLimit
                     THEN <<median(appended)>>
                     ELSE appended
        /\ (streamPc[r] = "ready" /\ streamPc'[r] = "resolved") =>
              streamResults'[r].globalWeight =
                 [max |-> max(stats[r].weights), min |-> min(stats[r].weights),
                  median |-> median(stats[r].weights)]]_vars

\* Weights 1, 1, 4 are compacted to their median 1, a weight 4 follows:
\* the final buffer is [1, 4].
C15_Witness ==
    /\ streamPc[1] = "resolved"
    /\ stats[1].processedCount = 4
    /\ stats[1].weights = <<Whole(1), Whole(4)>>
    /\ streamResults[1].globalWeight.max = Whole(4)
    /\ streamResults[1].globalWeight.median = Num(25 * (Unit \div 10))

\* The weight buffer after the first n chunks of cs, by the rule of C15.
RECURSIVE BufferAfter(_, _)
BufferAfter(cs, n) ==
    IF n = 0 THEN <<>>
    ELSE LET appended == BufferAfter(cs, n - 1) \o ValidWeights(cs[n].items)
         IN  IF Len(appended) > CompactionLimit THEN <<median(appended)>> ELSE appended

\* C16 as stated: once a compaction has happened, the final max and min
\* are still the largest and the smallest weight of all valid records of
\* the stream.
C16_ExactMaxMin ==
    \A r \in Runs :
        (streamPc[r] = "resolved" /\ ~NoCompaction(r)) =>
            /\ streamResults[r].globalWeight.max = max(ValidWeights(Concat(chunks[r])))
            /\ streamResults[r].globalWeight.min = min(ValidWeights(Concat(chunks[r])))

\* C16 as amended: the final max and min are exact while no compaction has
\* happened; after a compaction they are the largest and the smallest of
\* the last compaction's median and the weights appended after it, and
\* each may differ from the exact one.
C16_MaxMinOfBuffer ==
    \A r \in Runs :
        streamPc[r] = "resolved" =>
            LET all == ValidWeights(Concat(chunks[r]))
                kept == BufferAfter(chunks[r], Len(chunks[r]))
            IN  /\ streamResults[r].globalWeight.max = max(kept)
                /\ streamResults[r].globalWeight.min = min(kept)
                /\ NoCompaction(r) => kept = all

\* Weights 1, 1, 4 in one chunk: the buffer is compacted to the median 1
\* and the final max is 1, not 4.
C16_Witness ==
    /\ streamPc[1] = "resolved"
    /\ ~NoCompaction(1)
    /\ ValidWeights(Concat(chunks[1])) = <<Whole(1), Whole(1), Whole(4)>>
    /\ streamResults[1].globalWeight.max = Whole(1)

\* C17: a run over a stream of no chunk, or of array chunks with no valid
\* record, resolves, with empty byRegion and byResource and 0 for max, min
\* and median of globalWeight; it does not reject.
C17_StreamEmptyInput ==
    \A r \in Runs :
        (/\ Finished(r)
         /\ AllArrays(chunks[r])
         /\ Len(SelectSeq(Concat(chunks[r]), Conforms)) = 0) =>
            /\ streamPc[r] = "resolved"
            /\ streamThrown[r] = NoError
            /\ streamResults[r] =
                  [byRegion |-> EmptyObject, byResource |-> EmptyObject,
                   globalWeight |-> [max |-> Num(0), min |-> Num(0), median |-> Num(0)]]

\* C17 for chunks without a null or undefined element.
C17_StreamEmptyInputNoNull ==
    (\A k \in 1..Len(Concat(chunks[1])) : Concat(chunks[1])[k].t = "object")
        => C17_StreamEmptyInput

\* C18: no step of validateAndCleanData, calculateStatistics or
\* calculateStatisticsStream, whether it returns or throws, changes the
\* caller's arrays: their length, the order of their elements and the
\* fields of each record stay as they were.
C18_InputsUnchanged == [][rawData' = rawData /\ chunks' = chunks]_vars

\* Both calls have completed on an input with a record the validator
\* drops, the stream's weight buffer compacted (and sorted) on the way.
C18_Witness ==
    /\ pc = "done" /\ thrown = NoError
    /\ streamPc[1] = "resolved"
    /\ ~NoCompaction(1)
    /\ Len(ValidRecords) < Len(rawData.items)
    /\ Concat(chunks[1]) = rawData.items

\* C19: with two runs and a batch call in progress at once, their steps
\* interleaved in any order, each ends as it would alone: a run with the
\* outcome of calculateStatisticsStream on its own chunks, the batch call
\* with that of calculateStatistics on its own input.
C19_RunsIndependent ==
    /\ \A r \in Runs :
          Finished(r) =>
              /\ streamThrown[r] = calculateStatisticsStream(chunks[r]).thrown
              /\ streamResults[r] = calculateStatisticsStream(chunks[r]).value
              /\ (streamPc[r] = "resolved") = (streamThrown[r] = NoError)
    /\ pc = "done" =>
          /\ thrown = calculateStatistics(rawData).thrown
          /\ results = calculateStatistics(rawData).value

\* The second run has resolved while the first, over other records, is
\* suspended with a chunk processed and another to come.
C19_Witness ==
    /\ streamPc[2] = "resolved"
    /\ streamPc[1] = "wait" /\ cursor[1] = 1 /\ Len(chunks[1]) = 2
    /\ stats[1].processedCount = 1
    /\ Concat(chunks[1]) # Concat(chunks[2])
    /\ Cardinality(DOMAIN streamResults[2].byRegion) = 2

----------------------------------------------------------------------------
(* The handler of POST /api/calculate applied to one request. *)

\* The records of RecordPool, and one whose value is of the order of
\* 10^305, so that its group's sum is Infinity.
HttpPool ==
    RecordPool \cup {Record(Str(<<"7">>), LabelB, ResourceX, Whole(1), Big(1), Whole(1))}

\* What req.body.data may be: left out (undefined), null, 0, the empty
\* string, a number, a string, an object, or an array.
BodyData ==
    {[t |-> t, items |-> <<>>] :
        t \in {"undefined", "null", "zero", "emptystring", "number", "string", "object"}}
    \cup {Array(items) : items \in SeqsUpTo(HttpPool, MaxBody)}

InitHttp ==
    /\ req \in {[body |-> [data |-> data]] : data \in BodyData}
    /\ res = <<>>
    /\ httpPc = "call"
    /\ EngineIdle
    /\ StatsIdle
    /\ RoundIdle
    /\ DivideIdle
    /\ StreamIdle
    /\ WebIdle

\* The handler runs from the request to its end; where it calls
\* calculateStatistics, the engine's variables record the call.
HandleCalculate ==
    /\ httpPc = "call"
    /\ LET handled == calculateHandler(req)
           call == calculateStatistics(req.body.data)
       IN  /\ res' = res \o handled.sent
           /\ IF handled.engineCalls > 0
              THEN /\ rawData' = call.data
                   /\ results' = call.value
                   /\ thrown' = call.thrown
                   /\ pc' = "done"
              ELSE UNCHANGED <<rawData, results, thrown, pc>>
    /\ httpPc' = "done"
    /\ UNCHANGED <<req, validated, statsVars, roundVars, divideVars, streamVars>>
    /\ UNCHANGED webVars

NextHttp == HandleCalculate

SpecHttp == InitHttp /\ [][NextHttp]_vars

\* C20: a handled request has exactly one response: status 400 with
\* success false, the engine not called, when data is missing or no array;
\* status 500 with success false and the error's message when
\* calculateStatistics throws; and otherwise success true with the JSON
\* encoding of the result calculateStatistics returned.
C20_OneResponse ==
    httpPc = "done" =>
        /\ Len(res) = 1
        /\ LET data == req.body.data
               call == calculateStatistics(data)
           IN  IF ~IsArray(data)
               THEN /\ res[1].status = StatusBadRequest
                    /\ res[1].success = FALSE
                    /\ pc = "idle"
               ELSE IF call.thrown # NoError
               THEN /\ res[1].status = StatusServerError
                    /\ res[1].success = FALSE
                    /\ res[1].keys = {"success", "error"}
                    /\ res[1].error = call.thrown
                    /\ pc = "done"
               ELSE /\ res[1].status = StatusOk
                    /\ res[1].success = TRUE
                    /\ "data" \in res[1].keys
                    /\ res[1].data = JsonResults(call.value)
                    /\ res[1].totalRecords = Len(data.items)

\* A request with two valid records of two regions is answered with
\* success true and their summaries.
C20_Witness ==
    /\ httpPc = "done"
    /\ Len(res) = 1
    /\ res[1].success = TRUE
    /\ res[1].totalRecords = 2
    /\ Cardinality(DOMAIN res[1].data.byRegion) = 2

\* A request whose only record is dropped is answered with status 500 and
\* the 'no valid records' message.
C20_WitnessNoValidRecords ==
    /\ httpPc = "done"
    /\ Len(req.body.data.items) = 1
    /\ res[1].status = StatusServerError
    /\ res[1].error = NoValidRecordsError

----------------------------------------------------------------------------
(* ajax applied to one request. *)

\* options: the method as written, the kind of options.data (null, a
\* plain object, an object that contains itself, a string), and the
\* timeout (the default, or 0 for none).
AjaxOptions ==
    [method : {"GET", "get", "POST"},
     data : {"null", "object", "circular", "string"},
     timeout : {DefaultTimeout, 0}]

\* The status codes a response may carry.
Statuses == {199, 200, 204, 299, 300, 404, 500}

\* The bodies a response may carry: JSON texts, a text that is no JSON, and
\* the empty text.
ResponseTexts == {<<"1", "2">>, <<"n", "u", "l", "l">>, <<"o", "k">>, <<>>}

InitAjax ==
    /\ \E options \in AjaxOptions : xhr = NewXhr(options)
    /\ promise = Pending(NoSettlement)
    /\ ajaxPc = "call"
    /\ ThrottleIdle
    /\ GenIdle
    /\ CoreIdle

\* The executor to its end: xhr.send, and reject when it throws.
Send ==
    /\ ajaxPc = "call"
    /\ IF SendThrows(xhr)
       THEN /\ promise' = reject(promise, Settlement("TypeError", Undefined, xhr.status))
            /\ xhr' = [xhr EXCEPT !.outcome = "throw"]
            /\ ajaxPc' = "done"
       ELSE /\ ajaxPc' = "sent"
            /\ UNCHANGED <<xhr, promise>>
    /\ UNCHANGED <<throttleVars, genVars, coreVars>>

\* The status line and headers arrive: readyState 2, and readystatechange.
HeadersReceived ==
    /\ ajaxPc = "sent" /\ xhr.readyState = 1
    /\ \E status \in Statuses :
          /\ xhr' = [xhr EXCEPT !.readyState = 2, !.status = status]
          /\ promise' = onreadystatechange(xhr', promise)
    /\ UNCHANGED <<ajaxPc, throttleVars, genVars, coreVars>>

\* The body arrives and the request completes: readyState 3 and then 4,
\* with readystatechange at each.
Load ==
    /\ ajaxPc = "sent" /\ xhr.readyState = 2
    /\ \E text \in ResponseTexts :
          LET loading == [xhr EXCEPT !.readyState = 3, !.responseText = text]
              loaded == [loading EXCEPT !.readyState = 4, !.outcome = "load"]
          IN  /\ xhr' = loaded
              /\ promise' = onreadystatechange(loaded, onreadystatechange(loading, promise))
    /\ ajaxPc' = "done"
    /\ UNCHANGED <<throttleVars, genVars, coreVars>>

\* The request fails in the network: readyState 4 with status 0,
\* readystatechange, and then the error event.
NetworkError ==
    /\ ajaxPc = "sent" /\ xhr.readyState \in {1, 2}
    /\ LET failed == [xhr EXCEPT !.readyState = 4, !.status = 0, !.responseText = <<>>,
                                 !.outcome = "error"]
       IN  /\ xhr' = failed
           /\ promise' = onerror(failed, onreadystatechange(failed, promise))
    /\ ajaxPc' = "done"
    /\ UNCHANGED <<throttleVars, genVars, coreVars>>

\* xhr.timeout milliseconds pass before the request completes: readyState
\* 4 with status 0, readystatechange, and then the timeout event.
Timeout ==
    /\ ajaxPc = "sent" /\ xhr.readyState \in {1, 2}
    /\ xhr.timeout > 0
    /\ LET failed == [xhr EXCEPT !.readyState = 4, !.status = 0, !.responseText = <<>>,
                                 !.outcome = "timeout"]
       IN  /\ xhr' = failed
           /\ promise' = ontimeout(failed, onreadystatechange(failed, promise))
    /\ ajaxPc' = "done"
    /\ UNCHANGED <<throttleVars, genVars, coreVars>>

NextAjax == Send \/ HeadersReceived \/ Load \/ NetworkError \/ Timeout

SpecAjax == InitAjax /\ [][NextAjax]_vars

\* The promise is settled, and was pending until the request ended.
SettlesOnce ==
    /\ ajaxPc = "done" => promise.state # "pending"
    /\ ajaxPc # "done" => promise.state = "pending"

\* C21: the promise settles once, by the outcome table: fulfilled on a
\* status of 200..299 whose body parses as JSON; rejected on any other
\* status, on a timeout, on a network error, when send throws, and when
\* JSON.parse of the body fails.
C21_OutcomeTable ==
    /\ SettlesOnce
    /\ ajaxPc = "done" =>
          LET success == xhr.status >= 200 /\ xhr.status < 300
          IN  /\ (xhr.outcome = "load" /\ success /\ JsonParse(xhr.responseText).ok)
                    => promise.state = "fulfilled"
              /\ (xhr.outcome = "load" /\ ~success) => promise.state = "rejected"
              /\ xhr.outcome \in {"timeout", "error", "throw"} => promise.state = "rejected"
              /\ (xhr.outcome = "load" /\ success /\ ~JsonParse(xhr.responseText).ok)
                    => promise.state = "rejected"

\* C21 without its last row: every row of the table but the one for a
\* body that is no JSON.
C21_OutcomeTableButParse ==
    /\ SettlesOnce
    /\ ajaxPc = "done" =>
          LET success == xhr.status >= 200 /\ xhr.status < 300
          IN  /\ (xhr.outcome = "load" /\ success) => promise.state = "fulfilled"
              /\ (xhr.outcome = "load" /\ ~success) => promise.state = "rejected"
              /\ xhr.outcome \in {"timeout", "error", "throw"} => promise.state = "rejected"

----------------------------------------------------------------------------
(* The function throttle returns, called over time. *)

\* Date.now() at the start: a time stamp far above every delay.
ThrottleEpoch == 10 * MaxDelay

InitThrottle ==
    /\ \E delay \in 1..MaxDelay, leading \in BOOLEAN, trailing \in BOOLEAN :
          throttled = NewThrottled(delay, [leading |-> leading, trailing |-> trailing])
    /\ now = ThrottleEpoch
    /\ executions = <<>>
    /\ calls = 0
    /\ throttlePc = "run"
    /\ AjaxIdle
    /\ GenIdle
    /\ CoreIdle

\* fn is executed: the time is appended to executions, once for each.
RECURSIVE Executed(_, _, _)
Executed(log, t, n) == IF n = 0 THEN log ELSE Append(Executed(log, t, n - 1), t)

\* The returned function is called.
CallThrottled ==
    /\ throttlePc = "run"
    /\ calls < MaxCalls
    /\ LET call == ThrottledCall(throttled, now)
       IN  /\ throttled' = call.closure
           /\ executions' = Executed(executions, now, call.executed)
    /\ calls' = calls + 1
    /\ UNCHANGED <<now, throttlePc, ajaxVars, genVars, coreVars>>

\* The timer set by the last call comes due: its callback executes fn.
TimerFires ==
    /\ throttlePc = "run"
    /\ throttled.timer # NoTimer
    /\ now >= throttled.timer
    /\ executions' = Append(executions, now)
    /\ throttled' = [throttled EXCEPT !.timer = NoTimer]
    /\ UNCHANGED <<now, calls, throttlePc, ajaxVars, genVars, coreVars>>

\* A millisecond passes; a timer that is due fires first.
Tick ==
    /\ throttlePc = "run"
    /\ now < ThrottleEpoch + MaxTicks
    /\ ~(throttled.timer # NoTimer /\ now >= throttled.timer)
    /\ now' = now + 1
    /\ UNCHANGED <<throttled, executions, calls, throttlePc, ajaxVars, genVars, coreVars>>

NextThrottle == CallThrottled \/ TimerFires \/ Tick

SpecThrottle == InitThrottle /\ [][NextThrottle]_vars

\* Any two executions of fn are at least delay apart.
AtMostOncePerDelay ==
    \A i \in 1..Len(executions), j \in 1..Len(executions) :
        i < j => executions[j] - executions[i] >= throttled.delay

\* C22: whatever the calls and the options leading and trailing, fn is
\* executed at most once within any interval of length delay.
C22_AtMostOncePerDelay == throttlePc = "run" => AtMostOncePerDelay

\* C22 for the default options, leading and trailing both false.
C22_DefaultOptions ==
    (~throttled.options.leading /\ ~throttled.options.trailing) => AtMostOncePerDelay

\* C22 for trailing alone: the timer's execution is not recorded in lastTime,
\* so this does not hold either.
C22_TrailingAlone ==
    (~throttled.options.leading /\ throttled.options.trailing) => AtMostOncePerDelay

----------------------------------------------------------------------------
(* One call of the function generatorToAsync returns. *)

YieldStatements == [settles : {"value", "resolve", "reject"}, guarded : BOOLEAN]

Generators ==
    [body : UNION {[1..n -> YieldStatements] : n \in 0..MaxYields},
     end : {"return", "throw"}]

InitGen ==
    /\ gen \in Generators
    /\ iter = NewIterator
    /\ yielded = Pending("undefined")
    /\ asyncPromise = Pending("undefined")
    /\ genPc = "call"
    /\ AjaxIdle
    /\ ThrottleIdle
    /\ CoreIdle

\* What a step leaves behind.
AfterStep(s) ==
    /\ iter' = s.iter
    /\ asyncPromise' = s.promise
    /\ genPc' = s.pc
    /\ yielded' = IF s.pc = "awaiting" THEN PromiseResolve(gen, s.iter.pos) ELSE yielded

\* The returned function is called: the executor creates the iterator and
\* runs step("next").
CallAsync ==
    /\ genPc = "call"
    /\ AfterStep(Step(gen, NewIterator, Pending("undefined"), "next", "undefined"))
    /\ UNCHANGED <<gen, ajaxVars, throttleVars, coreVars>>

\* The promise the generator yielded settles.
SettleYielded ==
    /\ genPc = "awaiting"
    /\ yielded.state = "pending"
    /\ yielded' = IF gen.body[iter.pos].settles = "resolve"
                  THEN resolve(yielded, YieldValues[iter.pos])
                  ELSE reject(yielded, YieldValues[iter.pos])
    /\ UNCHANGED <<gen, iter, asyncPromise, genPc, ajaxVars, throttleVars, coreVars>>

\* The callback of then that belongs to the settled promise runs.
Resume ==
    /\ genPc = "awaiting"
    /\ yielded.state # "pending"
    /\ AfterStep(IF yielded.state = "fulfilled"
                 THEN onFulfilled(gen, iter, asyncPromise, yielded.value)
                 ELSE onRejected(gen, iter, asyncPromise, yielded.value))
    /\ UNCHANGED <<gen, ajaxVars, throttleVars, coreVars>>

NextGen == CallAsync \/ SettleYielded \/ Resume

SpecGen == InitGen /\ [][NextGen]_vars

\* What the generator has to have received at its i-th yield.
ExpectedResumption(i) ==
    [key |-> IF gen.body[i].settles = "reject" THEN "throw" ELSE "next",
     arg |-> YieldValues[i]]

\* The generator was resumed at each yield it has passed, in order, with the
\* outcome of the promise it yielded there.
ResumedInOrder ==
    /\ Len(iter.received) \in {iter.pos - 1, iter.pos}
    /\ \A i \in 1..Len(iter.received) : iter.received[i] = ExpectedResumption(i)
    /\ (genPc = "awaiting" => Len(iter.received) = iter.pos - 1)

\* The promise of the call once the generator is over.
SettledAsGenerator ==
    /\ (iter.completion = "return" =>
            /\ asyncPromise.state = "fulfilled"
            /\ asyncPromise.value = ReturnValue)
    /\ (iter.completion = "throw" =>
            /\ asyncPromise.state = "rejected"
            /\ asyncPromise.value \in {GeneratorError} \cup
                   {YieldValues[i] : i \in {j \in 1..Len(gen.body) :
                        gen.body[j].settles = "reject" /\ ~gen.body[j].guarded}})
    /\ (~iter.done => asyncPromise.state = "pending")

\* The generator is resumed at each yield with the outcome of the promise it
\* yielded, and the promise of the call follows the end of the generator.
LikeAsyncFunction == genPc # "idle" => ResumedInOrder /\ SettledAsGenerator

\* The generator moves only in the call and after the promise it yielded has
\* settled, and by one yield at most.
ResumesAfterSettle ==
    iter' # iter =>
        /\ genPc = "call" \/ (genPc = "awaiting" /\ yielded.state # "pending")
        /\ iter'.pos \in {iter.pos, iter.pos + 1}

C23_WitnessThrow ==
    /\ Len(gen.body) = 2
    /\ gen.body[2].settles = "reject"
    /\ ~gen.body[2].guarded
    /\ iter.completion = "throw"
    /\ asyncPromise.state = "rejected"
    /\ asyncPromise.value = YieldValues[2]
    /\ genPc = "threw"

----------------------------------------------------------------------------
(* The summarizer and the order of the values. *)

\* The orders the entries of a sequence of n values can be put in.
Orders(n) == {p \in [1..n -> 1..n] : \A i, j \in 1..n : p[i] = p[j] => i = j}

\* The sequence vs in the order p.
InOrder(vs, p) == [i \in 1..Len(vs) |-> vs[p[i]]]

\* The summary of the values is the summary of every reordering of them.
OrderIndependent ==
    \A p \in Orders(Len(values)) : createStatsSummary(InOrder(values, p)) = summary

\* C24: the summary of a value sequence is the same for every permutation of
\* the sequence: sum, mean, max, min, median and count do not depend on the
\* order of the values.
C24_OrderIndependent == statsPc = "done" => OrderIndependent

\* C24 for sequences without a double large enough to make round overflow.
C24_OrderIndependentBelowOverflow ==
    (statsPc = "done" /\ \A i \in 1..Len(values) : values[i] # Big(1)) => OrderIndependent

----------------------------------------------------------------------------
(* The stream, one chunk at a time. *)

\* The first n chunks of cs.
FirstChunks(cs, n) == SubSeq(cs, 1, n)

\* The number of values in the buffers of a Map.
RECURSIVE Buffered(_)
Buffered(map) ==
    IF Len(map) = 0 THEN 0
    ELSE Buffered(SubSeq(map, 1, Len(map) - 1)) + Len(map[Len(map)].items)

\* Run r has taken in exactly the first n chunks: every valid record of
\* them is counted and buffered, and the compaction check has run after
\* each.
TakenIn(r, n) ==
    LET valid == SelectSeq(Concat(FirstChunks(chunks[r], n)), Conforms)
    IN  /\ stats[r].processedCount = Len(valid)
        /\ Buffered(stats[r].byRegion) = Len(valid)
        /\ Buffered(stats[r].byResource) = Len(valid)
        /\ stats[r].weights = BufferAfter(chunks[r], n)

\* Between the steps: a run that waits for the producer has taken in the
\* chunks delivered so far; a run that was handed chunk k has taken in the
\* chunks before it; results exist only once the end of the stream was
\* delivered.
ChunkByChunk(r) ==
    /\ streamPc[r] = "wait" => TakenIn(r, cursor[r]) /\ delivered[r] = Nothing
    /\ (streamPc[r] = "ready" /\ ~delivered[r].done) =>
            /\ cursor[r] >= 1
            /\ delivered[r] = Chunk(chunks[r][cursor[r]])
            /\ TakenIn(r, cursor[r] - 1)
    /\ (streamPc[r] = "ready" /\ delivered[r].done) =>
            cursor[r] = Len(chunks[r]) /\ TakenIn(r, cursor[r])
    /\ streamPc[r] # "resolved" => streamResults[r] = NoStreamResults
    /\ streamPc[r] = "resolved" => cursor[r] = Len(chunks[r]) /\ TakenIn(r, cursor[r])

\* In a step: chunks are requested in order and one at a time, only by a
\* run that waits; the aggregation state changes only when a delivered
\* chunk is processed; the results are built only at the end of the stream.
OneChunkPerStep(r) ==
    /\ cursor'[r] # cursor[r] =>
            /\ streamPc[r] = "wait"
            /\ cursor'[r] = cursor[r] + 1
            /\ delivered'[r] = Chunk(chunks[r][cursor[r] + 1])
    /\ stats'[r] # stats[r] =>
            /\ streamPc[r] = "ready" /\ ~delivered[r].done
            /\ streamPc'[r] = "wait"
    /\ streamResults'[r] # streamResults[r] =>
            /\ streamPc[r] = "ready" /\ delivered[r].done
            /\ streamPc'[r] = "resolved"

\* C25: the chunks are consumed one at a time in the producer's order:
\* the next chunk is requested only after every valid record of the
\* current one is appended to the buffers and its compaction check has run,
\* the aggregation state changes only in a chunk-processing step and never
\* while the run waits for the producer, and the results are built only
\* after the producer has delivered the end of the stream.
C25_OneChunkAtATime ==
    /\ [](\A r \in Runs : ChunkByChunk(r))
    /\ [][\A r \in Runs : OneChunkPerStep(r)]_vars

\* A run waits for its third chunk, two chunks with valid records taken in.
C25_Witness ==
    /\ streamPc[1] = "wait"
    /\ cursor[1] = 2
    /\ Len(chunks[1]) >= 3
    /\ stats[1].processedCount >= 2
    /\ Len(ValidWeights(chunks[1][2].items)) >= 1

----------------------------------------------------------------------------
(* The size of the weight buffer. *)

\* The longest the weight buffer of run r gets inside the step that
\* processes the delivered chunk: its length when the loop over the chunk's
\* records ends, before the compaction check.
PeakWeights(r) ==
    LET cleaned == validateAndCleanData(delivered[r].value)
    IN  Len(UpdateFirst(stats[r], cleaned.value, Len(cleaned.value)).weights)

\* Run r is suspended between chunks, or has settled.
Suspended(r) == streamPc[r] \in {"wait", "ready", "resolved", "rejected"}

\* The step of run r that processes a delivered chunk.
ProcessesChunk(r) ==
    /\ streamPc[r] = "ready" /\ ~delivered[r].done
    /\ streamPc'[r] = "wait"

\* Inside a chunk-processing step the buffer holds at most CompactionLimit
\* entries and the weights of the chunk's valid records; a buffer of
\* CompactionLimit entries or fewer is left as it is, a longer one is cut
\* down to one entry.
BoundedPerChunk(r) ==
    ProcessesChunk(r) =>
        /\ PeakWeights(r) = Len(stats[r].weights) + Len(ValidWeights(delivered[r].value.items))
        /\ PeakWeights(r) <= CompactionLimit + Len(ValidWeights(delivered[r].value.items))
        /\ PeakWeights(r) <= CompactionLimit => Len(stats'[r].weights) = PeakWeights(r)
        /\ PeakWeights(r) > CompactionLimit => Len(stats'[r].weights) = 1

\* C26: whenever a run is suspended between chunks its weight buffer holds
\* at most CompactionLimit entries (the source's 100,000), a buffer of
\* exactly that many being kept and one entry more being compacted; inside
\* a chunk-processing step it holds at most CompactionLimit entries plus
\* the valid records of the current chunk.
C26_BufferBoundedPerChunk ==
    /\ [](\A r \in Runs : Suspended(r) => Len(stats[r].weights) <= CompactionLimit)
    /\ [][\A r \in Runs : BoundedPerChunk(r)]_vars

\* A run waits with a buffer of exactly CompactionLimit entries, left
\* uncompacted.
C26_Witness ==
    /\ streamPc[1] = "wait"
    /\ Len(stats[1].weights) = CompactionLimit
    /\ NoCompaction(1)

\* A run has compacted a buffer that a chunk had grown beyond the limit by
\* more than one entry.
C26_WitnessBeyond ==
    /\ streamPc[1] = "wait"
    /\ cursor[1] = 1
    /\ Len(ValidWeights(chunks[1][1].items)) > CompactionLimit + 1
    /\ Len(stats[1].weights) = 1

----------------------------------------------------------------------------
(* The stream under a producer that answers and a run that resumes. *)

\* One run over up to MaxPair records cut into chunks, followed by nothing,
\* an empty chunk or a chunk that is no array.
InitSettle ==
    /\ \E records \in SeqsUpTo(PairPool, MaxPair) :
        \E cs \in Chunkings(records), tail \in StreamTails :
            /\ chunks = [r \in Runs |-> IF r = 1 THEN cs \o tail ELSE <<>>]
            /\ rawData = Array(records)
    /\ cursor = [r \in Runs |-> 0]
    /\ delivered = [r \in Runs |-> Nothing]
    /\ stats = [r \in Runs |-> NewStats]
    /\ streamResults = [r \in Runs |-> NoStreamResults]
    /\ streamThrown = [r \in Runs |-> NoError]
    /\ streamPc = [r \in Runs |-> IF r = 1 THEN "wait" ELSE "idle"]
    /\ validated = <<>>
    /\ results = NoResults
    /\ thrown = NoError
    /\ pc = "call"
    /\ StatsIdle
    /\ RoundIdle
    /\ DivideIdle
    /\ HttpIdle
    /\ WebIdle

\* Consume(r) as streamPc shows it: the steps of NextStream that take run r
\* from "ready" are the steps of Consume(r), which is enabled in every state
\* with streamPc[r] = "ready".
Resumes(r) ==
    /\ streamPc[r] = "ready"
    /\ \E to \in {"wait", "resolved", "rejected"} : streamPc' = [streamPc EXCEPT ![r] = to]

\* The producer answers every request, with the next chunk or the end of
\* the stream, and a run that was handed an answer resumes.
SpecSettle ==
    /\ InitSettle
    /\ [][NextStream]_vars
    /\ WF_vars(\E r \in Runs : Produce(r))
    /\ WF_streamPc(\E r \in Runs : Resumes(r))

\* The validator raises on no chunk of cs.
NoneRaises(cs) == \A k \in 1..Len(cs) : validateAndCleanData(cs[k]).thrown = NoError

\* A rejected run has no result and stays as it is: it requests and
\* consumes nothing more.
RejectedForGood(r) ==
    streamPc[r] = "rejected" =>
        /\ streamResults[r] = NoStreamResults
        /\ validateAndCleanData(chunks[r][cursor[r]]).thrown = streamThrown[r]
        /\ NoneRaises(FirstChunks(chunks[r], cursor[r] - 1))

\* A settled run takes no further step.
SettledForGood(r) ==
    Finished(r) =>
        /\ streamPc'[r] = streamPc[r]
        /\ cursor'[r] = cursor[r]
        /\ stats'[r] = stats[r]
        /\ streamResults'[r] = streamResults[r]

\* A run does not resolve before the end of the stream.
ResolvedAtEnd(r) ==
    streamPc[r] = "resolved" => cursor[r] = Len(chunks[r]) /\ streamThrown[r] = NoError

\* What holds of a run whatever its chunks.
SettlesSafely ==
    /\ [](RejectedForGood(1) /\ ResolvedAtEnd(1))
    /\ [][SettledForGood(1)]_vars
    /\ (~NoneRaises(chunks[1]) => <>(streamPc[1] = "rejected"))

\* C27: once the producer delivers its chunks and ends the stream, the run
\* eventually resolves if every chunk is an array, and eventually rejects,
\* with no result and consuming no further chunk, if the validator raised
\* on a chunk; it never resolves before the end of the stream.
C27_AlwaysSettles ==
    /\ SettlesSafely
    /\ (AllArrays(chunks[1]) => <>(streamPc[1] = "resolved"))

\* C27 with "the validator raises on no chunk" for "every chunk is an
\* array".
C27_SettlesUnlessRaised ==
    /\ SettlesSafely
    /\ (NoneRaises(chunks[1]) => <>(streamPc[1] = "resolved"))

====
